---------------------------- MODULE Spec2Model ----------------------------
(***************************************************************************)
(* Monte Carlo SDE pricing engine (Final_Project_P4): the stochastic       *)
(* models (SDE), the discretisation schemes (FDM), the random source       *)
(* (RNG), the payoffs and MCSolver, which composes them.                    *)
(*                                                                         *)
(* Numbers.  A C++ double is modelled by an exact rational <<n, d>> with   *)
(* d > 0 and gcd(n, d) = 1, or by NaN.  +, -, *, / are exact; rounding of  *)
(* the binary64 format is not modelled.  sqrt, pow(., 0.5) and the         *)
(* exp(mean(log)) of the Asian payoff are roots, rounded down to a grid of *)
(* spacing 1/RootGrid: exact wherever the root lies on that grid.          *)
(***************************************************************************)
EXTENDS Integers, Sequences, FiniteSets, TLC

-----------------------------------------------------------------------------
(* double *)

NaN == <<0, 0>>

IsNaN(x) == x[2] = 0

Abs(n) == IF n < 0 THEN -n ELSE n

RECURSIVE Gcd(_, _)
Gcd(a, b) == IF b = 0 THEN a ELSE Gcd(b, a % b)

\* The double with value n/d (d # 0), in lowest terms.
Rat(n, d) ==
  LET g == Gcd(Abs(n), Abs(d))
      s == IF d < 0 THEN -1 ELSE 1
  IN  <<(s * n) \div g, (s * d) \div g>>

\* Conversion int -> double.
ToDouble(n) == <<n, 1>>

Zero == ToDouble(0)
One == ToDouble(1)
Half == Rat(1, 2)

\* a + b
RAdd(a, b) ==
  IF IsNaN(a) \/ IsNaN(b) THEN NaN
  ELSE LET g == Gcd(a[2], b[2])
       IN  Rat(a[1] * (b[2] \div g) + b[1] * (a[2] \div g), (a[2] \div g) * b[2])

\* -a
RNeg(a) == IF IsNaN(a) THEN NaN ELSE <<-a[1], a[2]>>

\* a - b
RSub(a, b) == RAdd(a, RNeg(b))

\* a * b
RMul(a, b) ==
  IF IsNaN(a) \/ IsNaN(b) THEN NaN
  ELSE LET g1 == Gcd(Abs(a[1]), b[2])
           g2 == Gcd(Abs(b[1]), a[2])
       IN  <<(a[1] \div g1) * (b[1] \div g2), (a[2] \div g2) * (b[2] \div g1)>>

\* a / b.  No division of the program has a zero divisor (N, M and
\* path.size() are positive, 1e-5 is not zero); a zero divisor yields NaN here.
RDiv(a, b) ==
  IF IsNaN(a) \/ IsNaN(b) \/ b[1] = 0 THEN NaN
  ELSE RMul(a, Rat(b[2], b[1]))

\* a < b, a <= b: false when either operand is NaN, as for doubles.
RLt(a, b) == ~IsNaN(a) /\ ~IsNaN(b) /\ a[1] * b[2] < b[1] * a[2]
RLe(a, b) == ~IsNaN(a) /\ ~IsNaN(b) /\ a[1] * b[2] <= b[1] * a[2]

\* std::max(a, b) == (a < b) ? b : a
RMax(a, b) == IF RLt(a, b) THEN b ELSE a

RECURSIVE IPow(_, _)
IPow(b, e) == IF e = 0 THEN 1 ELSE b * IPow(b, e - 1)

RECURSIVE RPow(_, _)
RPow(x, e) == IF e = 0 THEN One ELSE RMul(x, RPow(x, e - 1))

\* The largest r >= 0 with r^n <= v (v >= 0).
RECURSIVE IRootFrom(_, _, _)
IRootFrom(v, n, r) == IF IPow(r + 1, n) > v THEN r ELSE IRootFrom(v, n, r + 1)
IRoot(v, n) == IRootFrom(v, n, 0)

\* Roots are taken on a grid of spacing 1 / RootGrid.
RootGrid == 2

\* The n-th root of x: NaN below 0 (sqrt and log of a negative double are
\* NaN), otherwise the largest multiple r of 1 / RootGrid with r^n <= x.
Root(x, n) ==
  IF IsNaN(x) \/ x[1] < 0 THEN NaN
  ELSE Rat(IRoot((x[1] * IPow(RootGrid, n)) \div x[2], n), RootGrid)

\* std::sqrt
Sqrt(x) == Root(x, 2)


\* std::pow(x, g) for an exponent g = p/q >= 0: x^p for q = 1, otherwise the
\* q-th root of x^p (NaN for a negative base, as for a non-integer exponent).
Pow(x, g) ==
  IF IsNaN(x) \/ IsNaN(g) THEN NaN
  ELSE IF g[2] = 1 THEN RPow(x, g[1])
  ELSE Root(RPow(x, g[1]), g[2])

-----------------------------------------------------------------------------
(* SDE.hpp, SDE.cpp *)

\* A std::shared_ptr<SDE>: the null pointer, or one SDE object.  addr tells
\* two objects with equal parameters apart.
NullSDE ==
  [kind |-> "null", mu |-> Zero, sigma |-> Zero, gamma |-> Zero,
   kappa |-> Zero, theta |-> Zero, addr |-> 0]

GBM(mu, sigma, addr) ==
  [kind |-> "GBM", mu |-> mu, sigma |-> sigma, gamma |-> Zero,
   kappa |-> Zero, theta |-> Zero, addr |-> addr]

CEV(mu, sigma, gamma, addr) ==
  [kind |-> "CEV", mu |-> mu, sigma |-> sigma, gamma |-> gamma,
   kappa |-> Zero, theta |-> Zero, addr |-> addr]

CIR(kappa, theta, sigma, addr) ==
  [kind |-> "CIR", mu |-> Zero, sigma |-> sigma, gamma |-> Zero,
   kappa |-> kappa, theta |-> theta, addr |-> addr]

\* Variant: the drift is mu, not mu * S.
GBM_drift_additive(sde, S, t) == sde.mu

GBM_drift(sde, S, t) == RMul(sde.mu, S)

\* Variant: the diffusion reads mu instead of sigma.
GBM_diffusion_mu(sde, S, t) == RMul(sde.mu, S)

GBM_diffusion(sde, S, t) == RMul(sde.sigma, S)

CEV_drift(sde, S, t) == RMul(sde.mu, S)

CEV_diffusion(sde, S, t) == RMul(sde.sigma, Pow(S, sde.gamma))

CIR_drift(sde, S, t) == RMul(sde.kappa, RSub(sde.theta, S))

CIR_diffusion(sde, S, t) == RMul(sde.sigma, Sqrt(S))

\* sde->drift(S, t), sde->diffusion(S, t): the virtual calls.
SDE_drift(sde, S, t) ==
  CASE sde.kind = "GBM" -> GBM_drift(sde, S, t)
    [] sde.kind = "CEV" -> CEV_drift(sde, S, t)
    [] sde.kind = "CIR" -> CIR_drift(sde, S, t)

SDE_diffusion(sde, S, t) ==
  CASE sde.kind = "GBM" -> GBM_diffusion(sde, S, t)
    [] sde.kind = "CEV" -> CEV_diffusion(sde, S, t)
    [] sde.kind = "CIR" -> CIR_diffusion(sde, S, t)

-----------------------------------------------------------------------------
(* FDM.hpp, FDM.cpp *)

\* A std::shared_ptr<FDM>: the null pointer, or a scheme holding the SDE it
\* was constructed with.  The three constructors throw on a null SDE, so a
\* scheme object always holds a non-null one.
NullFDM == [kind |-> "null", sde |-> NullSDE]

EulerMethod(sde) == [kind |-> "EulerMethod", sde |-> sde]

MilsteinMethod(sde) == [kind |-> "MilsteinMethod", sde |-> sde]

DriftAdjustedPredictorCorrector(sde) ==
  [kind |-> "DriftAdjustedPredictorCorrector", sde |-> sde]

\* One evaluation of a model function, as recorded in a call log: the object
\* evaluated, the function and its arguments.
SDECall(sde, fn, S, t) == [addr |-> sde.addr, fn |-> fn, S |-> S, t |-> t]

\* The outcome of one advance call: the exception thrown ("" for none), the
\* value returned and the model evaluations made.  The evaluations of one
\* C++ expression are listed left to right; their order within an
\* expression is unspecified and nothing below reads it.
Threw(what) == [threw |-> what, value |-> NaN, calls |-> <<>>]

Returned(value, calls) == [threw |-> "", value |-> value, calls |-> calls]

\* The finite-difference step of MilsteinMethod::advance.
FDStep == Rat(1, 100000)

\* EulerMethod::advance with dt and dW exchanged in the two products.
EulerMethod_advance_swapped(fdm, S, t, dt, dW) ==
  IF RLe(dt, Zero) THEN Threw("invalid_argument")
  ELSE Returned(
         RAdd(RAdd(S, RMul(SDE_drift(fdm.sde, S, t), dW)),
              RMul(SDE_diffusion(fdm.sde, S, t), dt)),
         <<SDECall(fdm.sde, "drift", S, t), SDECall(fdm.sde, "diffusion", S, t)>>)

EulerMethod_advance(fdm, S, t, dt, dW) ==
  IF RLe(dt, Zero) THEN Threw("invalid_argument")
  ELSE Returned(
         RAdd(RAdd(S, RMul(SDE_drift(fdm.sde, S, t), dt)),
              RMul(SDE_diffusion(fdm.sde, S, t), dW)),
         <<SDECall(fdm.sde, "drift", S, t), SDECall(fdm.sde, "diffusion", S, t)>>)

\* MilsteinMethod::advance with the step checked by dt < 0 only.
MilsteinMethod_advance_zeroStep(fdm, S, t, dt, dW) ==
  IF RLt(dt, Zero) THEN Threw("invalid_argument")
  ELSE LET drift == SDE_drift(fdm.sde, S, t)
           diffusion == SDE_diffusion(fdm.sde, S, t)
           diffusionDerivative ==
             RDiv(RSub(SDE_diffusion(fdm.sde, RAdd(S, FDStep), t),
                       SDE_diffusion(fdm.sde, S, t)), FDStep)
       IN  Returned(
             RAdd(RAdd(RAdd(S, RMul(drift, dt)), RMul(diffusion, dW)),
                  RMul(RMul(RMul(Half, diffusion), diffusionDerivative),
                       RSub(RMul(dW, dW), dt))),
             <<SDECall(fdm.sde, "drift", S, t),
               SDECall(fdm.sde, "diffusion", S, t),
               SDECall(fdm.sde, "diffusion", RAdd(S, FDStep), t),
               SDECall(fdm.sde, "diffusion", S, t)>>)

\* MilsteinMethod::advance with a central difference for the derivative.
MilsteinMethod_advance_central(fdm, S, t, dt, dW) ==
  IF RLe(dt, Zero) THEN Threw("invalid_argument")
  ELSE LET drift == SDE_drift(fdm.sde, S, t)
           diffusion == SDE_diffusion(fdm.sde, S, t)
           diffusionDerivative ==
             RDiv(RSub(SDE_diffusion(fdm.sde, RAdd(S, FDStep), t),
                       SDE_diffusion(fdm.sde, RSub(S, FDStep), t)),
                  RMul(ToDouble(2), FDStep))
       IN  Returned(
             RAdd(RAdd(RAdd(S, RMul(drift, dt)), RMul(diffusion, dW)),
                  RMul(RMul(RMul(Half, diffusion), diffusionDerivative),
                       RSub(RMul(dW, dW), dt))),
             <<SDECall(fdm.sde, "drift", S, t),
               SDECall(fdm.sde, "diffusion", S, t),
               SDECall(fdm.sde, "diffusion", RAdd(S, FDStep), t),
               SDECall(fdm.sde, "diffusion", RSub(S, FDStep), t)>>)

MilsteinMethod_advance(fdm, S, t, dt, dW) ==
  IF RLe(dt, Zero) THEN Threw("invalid_argument")
  ELSE LET drift == SDE_drift(fdm.sde, S, t)
           diffusion == SDE_diffusion(fdm.sde, S, t)
           diffusionDerivative ==
             RDiv(RSub(SDE_diffusion(fdm.sde, RAdd(S, FDStep), t),
                       SDE_diffusion(fdm.sde, S, t)), FDStep)
       IN  Returned(
             RAdd(RAdd(RAdd(S, RMul(drift, dt)), RMul(diffusion, dW)),
                  RMul(RMul(RMul(Half, diffusion), diffusionDerivative),
                       RSub(RMul(dW, dW), dt))),
             <<SDECall(fdm.sde, "drift", S, t),
               SDECall(fdm.sde, "diffusion", S, t),
               SDECall(fdm.sde, "diffusion", RAdd(S, FDStep), t),
               SDECall(fdm.sde, "diffusion", S, t)>>)

\* DriftAdjustedPredictorCorrector::advance with the diffusion of the
\* corrector step evaluated at the predicted state.
DriftAdjustedPredictorCorrector_advance_rediffused(fdm, S, t, dt, dW) ==
  IF RLe(dt, Zero) THEN Threw("invalid_argument")
  ELSE LET drift == SDE_drift(fdm.sde, S, t)
           diffusion == SDE_diffusion(fdm.sde, S, t)
           S_predictor == RAdd(RAdd(S, RMul(drift, dt)), RMul(diffusion, dW))
           drift_corrector == SDE_drift(fdm.sde, S_predictor, RAdd(t, dt))
           diffusion_corrector == SDE_diffusion(fdm.sde, S_predictor, RAdd(t, dt))
           S_corrected ==
             RAdd(RAdd(S, RMul(RMul(Half, RAdd(drift, drift_corrector)), dt)),
                  RMul(diffusion_corrector, dW))
       IN  Returned(
             S_corrected,
             <<SDECall(fdm.sde, "drift", S, t),
               SDECall(fdm.sde, "diffusion", S, t),
               SDECall(fdm.sde, "drift", S_predictor, RAdd(t, dt)),
               SDECall(fdm.sde, "diffusion", S_predictor, RAdd(t, dt))>>)

DriftAdjustedPredictorCorrector_advance(fdm, S, t, dt, dW) ==
  IF RLe(dt, Zero) THEN Threw("invalid_argument")
  ELSE LET drift == SDE_drift(fdm.sde, S, t)
           diffusion == SDE_diffusion(fdm.sde, S, t)
           S_predictor == RAdd(RAdd(S, RMul(drift, dt)), RMul(diffusion, dW))
           drift_corrector == SDE_drift(fdm.sde, S_predictor, RAdd(t, dt))
           S_corrected ==
             RAdd(RAdd(S, RMul(RMul(Half, RAdd(drift, drift_corrector)), dt)),
                  RMul(diffusion, dW))
       IN  Returned(
             S_corrected,
             <<SDECall(fdm.sde, "drift", S, t),
               SDECall(fdm.sde, "diffusion", S, t),
               SDECall(fdm.sde, "drift", S_predictor, RAdd(t, dt))>>)

\* fdm->advance(S, t, dt, dW): the virtual call.
FDM_advance(fdm, S, t, dt, dW) ==
  CASE fdm.kind = "EulerMethod" -> EulerMethod_advance(fdm, S, t, dt, dW)
    [] fdm.kind = "MilsteinMethod" -> MilsteinMethod_advance(fdm, S, t, dt, dW)
    [] fdm.kind = "DriftAdjustedPredictorCorrector" ->
         DriftAdjustedPredictorCorrector_advance(fdm, S, t, dt, dW)

-----------------------------------------------------------------------------
(* Payoff.hpp, Payoff.cpp *)

\* A std::shared_ptr<Payoff>: the null pointer, or one payoff object.
NullPayoff ==
  [kind |-> "null", K |-> Zero, B |-> Zero,
   isCall |-> FALSE, isUp |-> FALSE, isIn |-> FALSE]

EuropeanCall(K) ==
  [kind |-> "EuropeanCall", K |-> K, B |-> Zero,
   isCall |-> TRUE, isUp |-> FALSE, isIn |-> FALSE]

EuropeanPut(K) ==
  [kind |-> "EuropeanPut", K |-> K, B |-> Zero,
   isCall |-> FALSE, isUp |-> FALSE, isIn |-> FALSE]

BarrierOption(K, B, isCall, isUp, isIn) ==
  [kind |-> "BarrierOption", K |-> K, B |-> B,
   isCall |-> isCall, isUp |-> isUp, isIn |-> isIn]

AsianOption(K, isCall) ==
  [kind |-> "AsianOption", K |-> K, B |-> Zero,
   isCall |-> isCall, isUp |-> FALSE, isIn |-> FALSE]

\* path.back()
Back(path) == path[Len(path)]

\* operator()(double S)
EuropeanCall_call(p, S) == RMax(RSub(S, p.K), Zero)

\* Variant: the put pays K - S, also below 0.
EuropeanPut_call_unfloored(p, S) == RSub(p.K, S)

EuropeanPut_call(p, S) == RMax(RSub(p.K, S), Zero)

\* Variant: the barrier itself counts as hit for the in option only.
BarrierOption_call_strictOut(p, S) ==
  LET isBarrierHit ==
        IF p.isIn THEN (IF p.isUp THEN RLe(p.B, S) ELSE RLe(S, p.B))
        ELSE (IF p.isUp THEN RLt(p.B, S) ELSE RLt(S, p.B))
  IN  IF p.isIn /\ ~isBarrierHit THEN Zero
      ELSE IF ~p.isIn /\ isBarrierHit THEN Zero
      ELSE IF p.isCall THEN RMax(RSub(S, p.K), Zero)
      ELSE RMax(RSub(p.K, S), Zero)

BarrierOption_call(p, S) ==
  LET isBarrierHit == IF p.isUp THEN RLe(p.B, S) ELSE RLe(S, p.B)
  IN  IF p.isIn /\ ~isBarrierHit THEN Zero
      ELSE IF ~p.isIn /\ isBarrierHit THEN Zero
      ELSE IF p.isCall THEN RMax(RSub(S, p.K), Zero)
      ELSE RMax(RSub(p.K, S), Zero)

AsianOption_call(p, S) == Zero

\* The product of the prices of a path.
RECURSIVE Product(_)
Product(path) ==
  IF path = <<>> THEN One ELSE RMul(path[1], Product(Tail(path)))

\* exp(logSum / path.size()) with logSum the sum of std::log(price): the
\* geometric mean of the prices.  log of a negative price is NaN, log(0) is
\* -inf and exp(-inf) is 0; the empty path gives exp(0.0 / 0) = NaN.
\* Variant: the loop over the path starts at its second price.
geometricAverage_skipFirst(path) ==
  IF path = <<>> THEN NaN
  ELSE IF \E k \in 2..Len(path) : IsNaN(path[k]) \/ path[k][1] < 0 THEN NaN
  ELSE Root(Product(Tail(path)), Len(path) - 1)

geometricAverage(path) ==
  IF path = <<>> THEN NaN
  ELSE IF \E k \in 1..Len(path) : IsNaN(path[k]) \/ path[k][1] < 0 THEN NaN
  ELSE Root(Product(path), Len(path))

\* operator()(const std::vector<double>& path), on a non-empty path
EuropeanCall_path(p, path) == EuropeanCall_call(p, Back(path))

EuropeanPut_path(p, path) == EuropeanPut_call(p, Back(path))

\* Variant: the first price of the path is used.
BarrierOption_path_front(p, path) == BarrierOption_call(p, path[1])

BarrierOption_path(p, path) == BarrierOption_call(p, Back(path))

AsianOption_path(p, path) ==
  IF p.isCall THEN RMax(RSub(geometricAverage(path), p.K), Zero)
  ELSE RMax(RSub(p.K, geometricAverage(path)), Zero)

\* (*payoff)(S) and (*payoff)(path): the virtual calls.
Payoff_call(p, S) ==
  CASE p.kind = "EuropeanCall" -> EuropeanCall_call(p, S)
    [] p.kind = "EuropeanPut" -> EuropeanPut_call(p, S)
    [] p.kind = "BarrierOption" -> BarrierOption_call(p, S)
    [] p.kind = "AsianOption" -> AsianOption_call(p, S)

Payoff_path(p, path) ==
  CASE p.kind = "EuropeanCall" -> EuropeanCall_path(p, path)
    [] p.kind = "EuropeanPut" -> EuropeanPut_path(p, path)
    [] p.kind = "BarrierOption" -> BarrierOption_path(p, path)
    [] p.kind = "AsianOption" -> AsianOption_path(p, path)

-----------------------------------------------------------------------------
(* State *)

VARIABLES
  config,   \* the configuration tuple handed to the MCSolver constructor
  solver,   \* <<>>, or <<the fields of the constructed MCSolver>>
  drawn,    \* state of the RNG object: the number of draws made from it
  pc,       \* position of the caller and of solve()
  dt, sum, i, S, path, j,   \* the locals of solve()
  outcome,  \* what the last constructor or solve() call returned or threw
  steps,    \* log: one entry per executed body of the step loop
  payoffs,  \* log: one entry per payoff evaluation
  casts,    \* log: number of dynamic_pointer_cast<AsianOption> evaluations
  runs,     \* log: one entry per finished call of solve()
  call,     \* <<>>, or <<the last advance call made directly on config.fdm>>
  earlier,  \* log: how each direct advance call before the last one ended
  evaluation,  \* <<>>, or <<the last payoff evaluations made directly>>
  builder,  \* the fields of a SimulationBuilder
  built,    \* what the last operation on the builder returned or threw
  requests, \* the calls a caller made on the builder, in order
  mediator, \* <<>>, or <<what the last operation on the MCMediator returned or threw>>
  startTime, endTime,   \* the fields of a StopWatch
  now,      \* the last reading of std::chrono::steady_clock
  reading,  \* <<>>, or <<what the last call of GetTime() returned>>
  events    \* log: the calls of StartStopWatch, StopStopWatch and Reset

solverVars ==
  <<config, solver, drawn, pc, dt, sum, i, S, path, j, outcome, steps,
    payoffs, casts, runs>>

fdmVars == <<call, earlier>>

payoffVars == <<evaluation>>

builderVars == <<builder, built, requests>>

mediatorVars == <<mediator>>

watchVars == <<startTime, endTime, now, reading, events>>

vars ==
  <<solverVars, fdmVars, payoffVars, builderVars, mediatorVars, watchVars>>

-----------------------------------------------------------------------------
(* RNG.hpp, RNG.cpp *)

\* The standard-normal values a draw can take in the model.
ZValues == <<ToDouble(-2), ToDouble(1)>>

\* The draws of a generator repeat after StreamLen calls.
StreamLen == 3

\* The seeds: one for every stream of StreamLen draws over ZValues.
Seeds == 0..(IPow(Len(ZValues), StreamLen) - 1)

\* A std::shared_ptr<RNG>: the null pointer, or a MersenneTwister seeded with
\* seed.  std::mt19937 and std::normal_distribution are deterministic: the
\* value of a draw is a function of the seed and of the number of draws made
\* before it.
NullRNG == [kind |-> "null", seed |-> 0]

MersenneTwister(seed) == [kind |-> "MersenneTwister", seed |-> seed]

\* Variant: the seed is ignored and every generator constructed draws from
\* a stream of its own.
MersenneTwister_generate_unseeded(rng, count) ==
  ZValues[((Len(runs) + count) % Len(ZValues)) + 1]

\* distribution(generator) for the generator seeded with rng.seed, after
\* count earlier draws.
MersenneTwister_generate(rng, count) ==
  ZValues[((rng.seed \div IPow(Len(ZValues), count % StreamLen)) % Len(ZValues)) + 1]

-----------------------------------------------------------------------------
(* MCSolver.hpp, MCSolver.cpp *)

NoOutcome == [kind |-> "none", value |-> NaN, what |-> ""]

Value(v) == [kind |-> "value", value |-> v, what |-> ""]

Exception(kind, what) == [kind |-> kind, value |-> NaN, what |-> what]

\* MCSolver::MCSolver, the two validations (lines 26 and 30).
MCSolver_componentsNull(c) ==
  c.sde.kind = "null" \/ c.fdm.kind = "null" \/ c.rng.kind = "null"
    \/ c.payoff.kind = "null"

\* Variant: zero passes the validation of the scalars.
MCSolver_scalarsInvalid_strict(c) ==
  RLt(c.S0, Zero) \/ RLt(c.T, Zero) \/ c.N < 0 \/ c.M < 0

MCSolver_scalarsInvalid(c) ==
  RLe(c.S0, Zero) \/ RLe(c.T, Zero) \/ c.N <= 0 \/ c.M <= 0

\* The least positive double.  It stands here at 1/16 for 2^-1074: what
\* the quotient T / N rounds to depends only on its ratio to this value.
DenormMin == Rat(1, 16)

\* The double nearest to x, for x below the least positive double in
\* magnitude: 0 up to half of it (the tie goes to 0, whose last bit is
\* even), the least positive double above.  Other values are kept exact.
Underflow(x) ==
  IF IsNaN(x) THEN x
  ELSE IF RLt(Zero, x) /\ RLt(x, DenormMin)
    THEN IF RLe(x, RMul(Half, DenormMin)) THEN Zero ELSE DenormMin
  ELSE IF RLt(x, Zero) /\ RLt(RNeg(DenormMin), x)
    THEN IF RLe(RMul(Half, RNeg(DenormMin)), x) THEN Zero ELSE RNeg(DenormMin)
  ELSE x

solve_dt_truncated(T, N) == ToDouble(T[1] \div (T[2] * N))

\* double dt = T / N
solve_dt(T, N) == Underflow(RDiv(T, ToDouble(N)))

\* std::vector<double> path(N + 1); path[0] = S0;   (path[k] is path[k + 1] here)
solve_pathInit(S0, N) == [k \in 1..(N + 1) |-> IF k = 1 THEN S0 ELSE Zero]

solve_pathLoop_inclusive(ii, M) == ii <= M

\* the loop conditions i < M and j < N
solve_pathLoop(ii, M) == ii < M

\* Variant: the step loop runs once more.
solve_stepLoop_inclusive(jj, N) == jj <= N

solve_stepLoop(jj, N) == jj < N

\* double dW = std::sqrt(dt) * rng->generate()
solve_dW(step, z) == RMul(Sqrt(step), z)

\* Variant: the scheme works on the model held by the solver.
solve_fdm_onSolverModel(this) == [this.fdm EXCEPT !.sde = this.sde]

\* fdm->advance: the scheme object the solver holds, with the model bound
\* to it when it was constructed.
solve_fdm(this) == this.fdm

\* Variant: the time at the end of the step.
solve_time_stepEnd(jj, step) == RMul(ToDouble(jj + 1), step)

\* the time handed to advance: j * dt
solve_time(jj, step) == RMul(ToDouble(jj), step)

\* Variant: the state is not checked.
solve_isNegative_unchecked(x) == FALSE

solve_isNegative_belowMinusOne(x) == RLt(x, ToDouble(-1))

\* if (S < 0)
solve_isNegative(x) == RLt(x, Zero)

\* Variant: the cast never succeeds.
solve_isAsian_never(p) == FALSE

\* std::dynamic_pointer_cast<AsianOption>(payoff) is non-null
solve_isAsian(p) == p.kind = "AsianOption"

\* the form the payoff is evaluated with, and its value
solve_payoffForm(p) == IF solve_isAsian(p) THEN "path" ELSE "terminal"

\* Variant: a barrier is hit by any price of the path.
solve_payoffValue_monitored(p, pth, last) ==
  IF solve_isAsian(p) THEN Payoff_path(p, pth)
  ELSE IF p.kind = "BarrierOption"
    THEN LET isBarrierHit ==
               \E k \in 1..Len(pth) :
                 IF p.isUp THEN RLe(p.B, pth[k]) ELSE RLe(pth[k], p.B)
         IN  IF p.isIn # isBarrierHit THEN Zero
             ELSE IF p.isCall THEN RMax(RSub(last, p.K), Zero)
             ELSE RMax(RSub(p.K, last), Zero)
  ELSE Payoff_call(p, last)

solve_payoffValue(p, pth, last) ==
  IF solve_isAsian(p) THEN Payoff_path(p, pth) ELSE Payoff_call(p, last)

\* Variant: sum = ... instead of sum += ...
solve_accumulate_overwrite(acc, p) == p

\* sum += ...
solve_accumulate(acc, p) == RAdd(acc, p)

\* return sum / M
solve_result(acc, M) == RDiv(acc, ToDouble(M))

\* The generator of a newly constructed MersenneTwister(seed): no draw made.
MersenneTwister_drawn(seed) == 0

\* MCSolver::MCSolver(config)
MCSolver_ctor ==
  /\ UNCHANGED <<fdmVars, payoffVars, builderVars, mediatorVars, watchVars>>
  /\ pc = "main"
  /\ IF MCSolver_componentsNull(config)
       THEN /\ pc' = "ctor_threw"
            /\ outcome' = Exception("invalid_argument", "components")
            /\ solver' = <<>>
     ELSE IF MCSolver_scalarsInvalid(config)
       THEN /\ pc' = "ctor_threw"
            /\ outcome' = Exception("invalid_argument", "initial conditions")
            /\ solver' = <<>>
     ELSE /\ pc' = "constructed"
          /\ outcome' = NoOutcome
          /\ solver' = <<config>>
  /\ UNCHANGED <<config, drawn, dt, sum, i, S, path, j, steps, payoffs, casts, runs>>

\* solve(), lines 38-44: up to the head of the path loop.
solve_begin ==
  /\ UNCHANGED <<fdmVars, payoffVars, builderVars, mediatorVars, watchVars>>
  /\ pc = "constructed"
  /\ LET this == solver[1]
         step == solve_dt(this.T, this.N)
     IN  /\ dt' = step
         /\ IF RLe(step, Zero)
              THEN /\ pc' = "solve_threw"
                   /\ outcome' = Exception("runtime_error", "dt")
                   /\ runs' = Append(runs, [start |-> drawn, outcome |-> outcome'])
                   /\ UNCHANGED <<sum, i>>
            ELSE /\ pc' = "path_loop"
                 /\ outcome' = NoOutcome
                 /\ sum' = Zero
                 /\ i' = 0
                 /\ UNCHANGED runs
  /\ steps' = <<>>
  /\ payoffs' = <<>>
  /\ casts' = 0
  /\ UNCHANGED <<config, solver, drawn, S, path, j>>

\* lines 45-49: the path loop is entered for path i.
solve_path ==
  /\ UNCHANGED <<fdmVars, payoffVars, builderVars, mediatorVars, watchVars>>
  /\ pc = "path_loop"
  /\ solve_pathLoop(i, solver[1].M)
  /\ S' = solver[1].S0
  /\ path' = solve_pathInit(solver[1].S0, solver[1].N)
  /\ j' = 0
  /\ pc' = "step_loop"
  /\ UNCHANGED <<config, solver, drawn, dt, sum, i, outcome, steps, payoffs, casts, runs>>

\* lines 51-60: one body of the step loop.
solve_step ==
  /\ UNCHANGED <<fdmVars, payoffVars, builderVars, mediatorVars, watchVars>>
  /\ pc = "step_loop"
  /\ solve_stepLoop(j, solver[1].N)
  /\ LET this == solver[1]
         z == MersenneTwister_generate(this.rng, drawn)
         dW == solve_dW(dt, z)
         t == solve_time(j, dt)
         adv == FDM_advance(solve_fdm(this), S, t, dt, dW)
         entry == [i |-> i, j |-> j, drawn |-> drawn, z |-> z, dW |-> dW,
                   S |-> S, t |-> t, dt |-> dt, adv |-> adv]
     IN  /\ drawn' = drawn + 1
         /\ steps' = Append(steps, entry)
         /\ IF adv.threw # ""
              THEN /\ pc' = "solve_threw"
                   /\ outcome' = Exception(adv.threw, "dt")
                   /\ runs' = Append(runs, [start |-> drawn' - Len(steps'), outcome |-> outcome'])
                   /\ UNCHANGED <<S, path, j>>
            ELSE IF solve_isNegative(adv.value)
              THEN /\ pc' = "solve_threw"
                   /\ outcome' = Exception("runtime_error", "negative")
                   /\ runs' = Append(runs, [start |-> drawn' - Len(steps'), outcome |-> outcome'])
                   /\ S' = adv.value
                   /\ UNCHANGED <<path, j>>
            ELSE /\ S' = adv.value
                 /\ path' = [path EXCEPT ![j + 2] = adv.value]
                 /\ j' = j + 1
                 /\ UNCHANGED <<pc, outcome, runs>>
  /\ UNCHANGED <<config, solver, dt, sum, i, payoffs, casts>>

\* lines 62-70: the step loop is left and the payoff of path i is added.
solve_payoff ==
  /\ UNCHANGED <<fdmVars, payoffVars, builderVars, mediatorVars, watchVars>>
  /\ pc = "step_loop"
  /\ ~solve_stepLoop(j, solver[1].N)
  /\ LET this == solver[1]
         p == solve_payoffValue(this.payoff, path, S)
     IN  /\ payoffs' = Append(payoffs, [i |-> i, form |-> solve_payoffForm(this.payoff),
                                        path |-> path, S |-> S, value |-> p])
         /\ sum' = solve_accumulate(sum, p)
  /\ casts' = casts + 1
  /\ i' = i + 1
  /\ pc' = "path_loop"
  /\ UNCHANGED <<config, solver, drawn, dt, S, path, j, outcome, steps, runs>>

\* line 73: the path loop is left.
solve_return ==
  /\ UNCHANGED <<fdmVars, payoffVars, builderVars, mediatorVars, watchVars>>
  /\ pc = "path_loop"
  /\ ~solve_pathLoop(i, solver[1].M)
  /\ outcome' = Value(solve_result(sum, solver[1].M))
  /\ runs' = Append(runs, [start |-> drawn - Len(steps), outcome |-> outcome'])
  /\ pc' = "returned"
  /\ UNCHANGED <<config, solver, drawn, dt, sum, i, S, path, j, steps, payoffs, casts>>

-----------------------------------------------------------------------------
(* The configurations checked *)

MaxN == 2
MaxM == 2

Two == ToDouble(2)
Config(sde, fdm, rng, payoff, S0, T, N, M) ==
  [sde |-> sde, fdm |-> fdm, rng |-> rng, payoff |-> payoff,
   S0 |-> S0, T |-> T, N |-> N, M |-> M]

\* The models: addr is 2 for the object a scheme was constructed with.
Models(addr) ==
  {GBM(One, One, addr), GBM(One, Zero, addr), CEV(One, Two, Half, addr),
   CIR(One, One, Two, addr)}

Schemes(sde) ==
  {EulerMethod(sde), MilsteinMethod(sde), DriftAdjustedPredictorCorrector(sde)}

\* The model slot and the scheme of a configuration: two objects with equal
\* parameters (main.cpp), or one object in both places (configureFromUser,
\* which hands the selected model to selectFDM).
ModelAndScheme ==
  UNION {{<<[m EXCEPT !.addr = 1], f>> : f \in Schemes(m)} : m \in Models(2)}
    \cup {<<GBM(One, Two, 1), f>> : f \in Schemes(GBM(One, Two, 1))}

PayoffObjects ==
  {EuropeanCall(One), EuropeanPut(Two),
   BarrierOption(One, Two, TRUE, TRUE, TRUE),
   BarrierOption(Two, One, FALSE, FALSE, FALSE),
   AsianOption(One, TRUE), AsianOption(Two, FALSE)}

\* Configurations the constructor accepts.  T is N or 2 N, which keeps
\* dt = T / N whole and the values of a path in small terms.
SolveConfigs ==
  {Config(ms[1], ms[2], MersenneTwister(seed), p, S0, ToDouble(N * perStep), N, M) :
     ms \in ModelAndScheme, seed \in Seeds, p \in PayoffObjects,
     S0 \in {One, Two}, perStep \in {1, 2}, N \in 1..MaxN, M \in 1..MaxM}

\* Configurations with any combination of null components and of scalars
\* that are negative, zero, positive or, for the doubles, not a number.
CtorConfigs ==
  {Config(sde, fdm, rng, p, S0, T, N, M) :
     sde \in {NullSDE, GBM(Half, One, 1)},
     fdm \in {NullFDM, EulerMethod(GBM(Half, One, 2))},
     rng \in {NullRNG, MersenneTwister(0)},
     p \in {NullPayoff, EuropeanCall(One)},
     S0 \in {ToDouble(-1), Zero, One, NaN}, T \in {ToDouble(-1), Zero, One, NaN},
     N \in {-1, 0, 1}, M \in {-1, 0, 1}}

\* SimulationBuilder::SimulationBuilder(): no component, scalars 0.
SimulationBuilder ==
  Config(NullSDE, NullFDM, NullRNG, NullPayoff, Zero, Zero, 0, 0)

\* std::chrono::steady_clock::time_point::min(): it stands here at -1, below
\* every reading of the clock, which are counted from 0.
time_point_min == -1

\* What neither the caller's configuration nor its builder decides.
InitLocals ==
  /\ solver = <<>>
  /\ drawn = MersenneTwister_drawn(config.rng.seed)
  /\ pc = "main"
  /\ dt = Zero
  /\ sum = Zero
  /\ i = 0
  /\ S = Zero
  /\ path = <<>>
  /\ j = 0
  /\ outcome = NoOutcome
  /\ steps = <<>>
  /\ payoffs = <<>>
  /\ casts = 0
  /\ runs = <<>>
  /\ call = <<>>
  /\ earlier = <<>>
  /\ evaluation = <<>>
  /\ built = NoOutcome
  /\ requests = <<>>
  /\ mediator = <<>>
  /\ startTime = time_point_min
  /\ endTime = time_point_min
  /\ now = 0
  /\ reading = <<>>
  /\ events = <<>>

InitWith(configs) ==
  /\ config \in configs
  /\ builder = SimulationBuilder
  /\ InitLocals

Init == InitWith(SolveConfigs \cup CtorConfigs)

Next ==
  \/ MCSolver_ctor
  \/ solve_begin
  \/ solve_path
  \/ solve_step
  \/ solve_payoff
  \/ solve_return

Spec == Init /\ [][Next]_vars

-----------------------------------------------------------------------------
(* Properties of MCSolver *)

Running == pc \in {"path_loop", "step_loop"}

RECURSIVE SumOfValues(_)
SumOfValues(log) ==
  IF log = <<>> THEN Zero ELSE RAdd(log[1].value, SumOfValues(Tail(log)))

\* The states path number ii went through, read off the step log: S0, then
\* what advance returned at each of its steps.
RECURSIVE StatesOfPath(_, _)
StatesOfPath(log, ii) ==
  IF log = <<>> THEN <<>>
  ELSE IF log[1].i = ii THEN <<log[1].adv.value>> \o StatesOfPath(Tail(log), ii)
  ELSE StatesOfPath(Tail(log), ii)

\* The payoff of a path, by the variant of the payoff object.
PayoffOfPath(p, pth) ==
  CASE p.kind = "EuropeanCall" -> RMax(RSub(pth[Len(pth)], p.K), Zero)
    [] p.kind = "EuropeanPut" -> RMax(RSub(p.K, pth[Len(pth)]), Zero)
    [] p.kind = "BarrierOption" -> BarrierOption_call(p, pth[Len(pth)])
    [] p.kind = "AsianOption" -> AsianOption_path(p, pth)

\* C1: while solve() runs, sum is the sum of the payoffs evaluated so far, one
\* per finished path in path order, each the payoff of the states that path
\* went through; a call that returns has evaluated exactly M payoffs and
\* returns their sum divided by M, with no other factor.
C1_MeanOfPayoffs ==
  /\ (Running \/ pc = "returned") =>
       /\ sum = SumOfValues(payoffs)
       /\ \A k \in 1..Len(payoffs) :
            /\ payoffs[k].i = k - 1
            /\ payoffs[k].path = <<solver[1].S0>> \o StatesOfPath(steps, k - 1)
            /\ payoffs[k].value = PayoffOfPath(solver[1].payoff, payoffs[k].path)
  /\ pc = "returned" =>
       /\ Len(payoffs) = solver[1].M
       /\ outcome.kind = "value"
       /\ outcome.value = RDiv(SumOfValues(payoffs), ToDouble(solver[1].M))

\* A run of two paths with different, non-zero payoffs has returned.
C1_Witness ==
  /\ pc = "returned"
  /\ Len(payoffs) = 2
  /\ payoffs[1].value # Zero
  /\ payoffs[2].value # Zero
  /\ payoffs[1].value # payoffs[2].value
  /\ outcome.value = RDiv(RAdd(payoffs[1].value, payoffs[2].value), Two)

\* C3: the k-th step executed by a run (k from 0) is step k mod N of path
\* k div N and uses the k-th draw of the generator, scaled by sqrt(dt), as
\* its dW; no draw is made outside a step, and a run that returns has made
\* exactly N M draws.
C3_DrawOrder ==
  /\ (Running \/ pc \in {"returned", "solve_threw"}) =>
       /\ drawn = Len(steps)
       /\ \A k \in 1..Len(steps) :
            /\ steps[k].drawn = k - 1
            /\ steps[k].i = (k - 1) \div solver[1].N
            /\ steps[k].j = (k - 1) % solver[1].N
            /\ steps[k].z = MersenneTwister_generate(solver[1].rng, k - 1)
            /\ steps[k].dW = RMul(Sqrt(steps[k].dt), steps[k].z)
  /\ pc = "returned" => drawn = solver[1].N * solver[1].M

\* A run of two paths of two steps has returned, its draws not all equal.
C3_Witness ==
  /\ pc = "returned"
  /\ solver[1].N = 2
  /\ solver[1].M = 2
  /\ Len(steps) = 4
  /\ steps[2].z # steps[3].z
  /\ steps[3].i = 1
  /\ steps[3].j = 0

\* C4: a step whose advance returned a state below zero is the last thing
\* its run did: solve() has thrown the negative-price runtime_error, the
\* draw of that step is its last draw, and no payoff was evaluated for its
\* path or any later one.  No state below zero is ever stored in a path.
C4_NegativeAborts ==
  /\ \A k \in 1..Len(steps) :
       (steps[k].adv.threw = "" /\ RLt(steps[k].adv.value, Zero)) =>
         /\ k = Len(steps)
         /\ pc = "solve_threw"
         /\ outcome = Exception("runtime_error", "negative")
         /\ drawn = steps[k].drawn + 1
         /\ Len(payoffs) = steps[k].i
         /\ \A q \in 1..Len(payoffs) : payoffs[q].i < steps[k].i
  /\ \A k \in 1..Len(path) : ~RLt(path[k], Zero)

\* A run of two-step paths has thrown in its second path, after the payoff
\* of the first was evaluated.
C4_Witness ==
  /\ pc = "solve_threw"
  /\ outcome.what = "negative"
  /\ i = 1
  /\ solver[1].N = 2
  /\ Len(payoffs) = 1
  /\ RLt(S, Zero)
  /\ solver[1].M = 2

\* A configuration the constructor must reject, stated on its fields: a
\* null component, or a scalar that is 0 or below.
BadConfig(c) ==
  \/ c.sde = NullSDE
  \/ c.fdm = NullFDM
  \/ c.rng = NullRNG
  \/ c.payoff = NullPayoff
  \/ RLe(c.S0, Zero)
  \/ RLe(c.T, Zero)
  \/ c.N <= 0
  \/ c.M <= 0

\* The four scalars of a configuration are above 0.
StrictlyPositive(c) ==
  RLt(Zero, c.S0) /\ RLt(Zero, c.T) /\ c.N > 0 /\ c.M > 0

\* C5: once the constructor has run on a configuration with a null component
\* or a scalar that is 0 or below, it has thrown invalid_argument and no
\* solver exists; solve() is only ever at work on a solver whose components
\* are all present and whose scalars are all above 0.
C5_ConstructorValidates ==
  /\ (pc # "main" /\ BadConfig(config)) =>
       /\ pc = "ctor_threw"
       /\ outcome.kind = "invalid_argument"
       /\ solver = <<>>
  /\ pc \in {"constructed", "path_loop", "step_loop", "returned", "solve_threw"} =>
       /\ solver = <<config>>
       /\ ~MCSolver_componentsNull(solver[1])
       /\ StrictlyPositive(solver[1])

\* C7: every payoff evaluation of a run uses the full-path form, on all N + 1
\* stored values, exactly when the payoff object is an AsianOption; for the
\* other variants it uses the terminal-value form on S, which is path[N].
C7_PayoffForm ==
  \A k \in 1..Len(payoffs) :
    LET e == payoffs[k]
        p == solver[1].payoff
    IN  /\ (e.form = "path") <=> (p.kind = "AsianOption")
        /\ (e.form = "terminal") <=> (p.kind \in {"EuropeanCall", "EuropeanPut", "BarrierOption"})
        /\ Len(e.path) = solver[1].N + 1
        /\ e.S = e.path[solver[1].N + 1]
        /\ e.form = "path" => e.value = AsianOption_path(p, e.path)
        /\ e.form = "terminal" => e.value = Payoff_call(p, e.path[solver[1].N + 1])

\* An Asian payoff was evaluated on a path whose terminal-value form is 0
\* and whose full-path form is not.
C7_Witness ==
  /\ Len(payoffs) > 0
  /\ payoffs[1].form = "path"
  /\ solver[1].payoff.kind = "AsianOption"
  /\ payoffs[1].value # Zero
  /\ payoffs[1].path[1] # payoffs[1].path[2]

-----------------------------------------------------------------------------
(* Repeated runs *)

MaxRuns == 2

\* Configurations for repeated runs.
RepeatConfigs ==
  {c \in SolveConfigs :
     /\ c.payoff \in {EuropeanCall(One), AsianOption(Two, FALSE)}
     /\ c.S0 = One
     /\ c.T = ToDouble(c.N)}

\* The caller builds the same configuration again, with a new MersenneTwister
\* of the same seed, and constructs a new solver from it.
main_rerun ==
  /\ pc \in {"returned", "solve_threw"}
  /\ Len(runs) < MaxRuns
  /\ drawn' = MersenneTwister_drawn(config.rng.seed)
  /\ solver' = <<>>
  /\ pc' = "main"
  /\ outcome' = NoOutcome
  /\ UNCHANGED <<config, dt, sum, i, S, path, j, steps, payoffs, casts, runs>>
  /\ UNCHANGED <<fdmVars, payoffVars, builderVars, mediatorVars, watchVars>>

\* The caller calls solve() once more on the same solver, whose RNG object
\* goes on from where the last call left it.
main_solveAgain ==
  /\ pc \in {"returned", "solve_threw"}
  /\ Len(runs) < MaxRuns
  /\ pc' = "constructed"
  /\ outcome' = NoOutcome
  /\ UNCHANGED <<config, solver, drawn, dt, sum, i, S, path, j, steps, payoffs, casts, runs>>
  /\ UNCHANGED <<fdmVars, payoffVars, builderVars, mediatorVars, watchVars>>

InitRepeat == InitWith(RepeatConfigs)

NextRepeat == Next \/ main_rerun \/ main_solveAgain

SpecRepeat == InitRepeat /\ [][NextRepeat]_vars

\* C2 as stated: all calls of solve() on the same configuration and seed
\* ended the same way.  A second solve() on the same solver goes on in the
\* generator's stream, where the first call left it.
C2_AllCallsAgree ==
  \A a, b \in 1..Len(runs) : runs[a].outcome = runs[b].outcome

\* C2: the calls of solve() that started from the same generator state, on
\* the same configuration, ended the same way: with the same returned value
\* or the same exception.  In particular every call on a newly built
\* configuration with the same seed (start = 0) gives what the first gave.
C2_Deterministic ==
  \A a, b \in 1..Len(runs) :
    runs[a].start = runs[b].start => runs[a].outcome = runs[b].outcome

\* Two runs from a new generator of the same seed have returned the same
\* non-zero value, on a model whose paths depend on the draws.
C2_Witness ==
  /\ Len(runs) = 2
  /\ runs[1].start = 0
  /\ runs[2].start = 0
  /\ runs[1].outcome.kind = "value"
  /\ runs[1].outcome.value # Zero
  /\ runs[2].outcome = runs[1].outcome
  /\ config.fdm.sde.sigma # Zero
  /\ \E k \in 1..Len(steps) : steps[k].z # steps[1].z

-----------------------------------------------------------------------------
(* Calls of advance on one scheme object *)

MaxCalls == 3

\* The schemes called: one object each, constructed with a model of its own.
\* The volatility of the square-root models is small, which keeps the
\* difference quotient over 1e-5 in small terms.
FDMModels ==
  {GBM(One, One, 2), GBM(One, Zero, 2), GBM(Half, Two, 2),
   CEV(One, Rat(1, 50), Half, 2), CIR(One, One, Rat(1, 50), 2)}

FDMConfigs ==
  {Config(GBM(Half, One, 1), f, NullRNG, NullPayoff, Zero, Zero, 0, 0) :
     f \in UNION {Schemes(m) : m \in FDMModels}}

\* The arguments of advance: states below, at and above 0, on and off the
\* grid of the roots; step sizes below, at and above 0.
FDMStates == {ToDouble(-1), Zero, One, Two, Rat(9, 4), Rat(99999, 100000)}
FDMTimes == {Zero, One}
FDMStepSizes == {ToDouble(-1), Zero, Rat(1, 4), One}
FDMIncrements == {ToDouble(-2), One}

\* config.fdm->advance(currentState, currentTime, stepSize, increment),
\* called by any caller, after the calls counted in earlier.  call holds the
\* last call and what it did; earlier holds how the calls before it ended.
FDM_call ==
  /\ Len(earlier) + Len(call) < MaxCalls
  /\ \E currentState \in FDMStates, currentTime \in FDMTimes,
        stepSize \in FDMStepSizes, increment \in FDMIncrements :
       call' = <<[S |-> currentState, t |-> currentTime, dt |-> stepSize,
                  dW |-> increment,
                  adv |-> FDM_advance(config.fdm, currentState, currentTime,
                                      stepSize, increment)]>>
  /\ earlier' = earlier \o [k \in 1..Len(call) |-> call[k].adv.threw]
  /\ UNCHANGED <<solverVars, payoffVars, builderVars, mediatorVars, watchVars>>

InitFDM == InitWith(FDMConfigs)

NextFDM == FDM_call

SpecFDM == InitFDM /\ [][NextFDM]_vars

\* The evaluations of fn in a call log.
CallsOf(calls, fn) == {k \in 1..Len(calls) : calls[k].fn = fn}

\* C6: a call of advance with stepSize <= 0 throws invalid_argument (the
\* InvalidStepSize condition) on each of the three schemes, whatever the
\* earlier calls on the object did, and evaluates neither drift nor
\* diffusion of the model.
C6_InvalidStepSize ==
  \A k \in 1..Len(call) :
    RLe(call[k].dt, Zero) =>
      /\ call[k].adv.threw = "invalid_argument"
      /\ call[k].adv.calls = <<>>

\* A predictor-corrector call with stepSize 0 has thrown, after one call
\* that returned and one that threw.
C6_Witness ==
  /\ Len(call) = 1
  /\ config.fdm.kind = "DriftAdjustedPredictorCorrector"
  /\ call[1].dt = Zero
  /\ call[1].adv.threw = "invalid_argument"
  /\ \E a, b \in 1..Len(earlier) : earlier[a] = "" /\ earlier[b] # ""

\* C8: EulerMethod::advance with stepSize > 0 returns
\* S + drift(S,t) dt + diffusion(S,t) dW, with drift and diffusion each
\* evaluated once, at (S, t), on the model the scheme was constructed with.
C8_Euler ==
  \A k \in 1..Len(call) :
    LET c == call[k]
        sde == config.fdm.sde
    IN  (config.fdm.kind = "EulerMethod" /\ RLt(Zero, c.dt)) =>
          /\ c.adv.threw = ""
          /\ c.adv.value =
               RAdd(RAdd(c.S, RMul(SDE_drift(sde, c.S, c.t), c.dt)),
                    RMul(SDE_diffusion(sde, c.S, c.t), c.dW))
          /\ Cardinality(CallsOf(c.adv.calls, "drift")) = 1
          /\ Cardinality(CallsOf(c.adv.calls, "diffusion")) = 1
          /\ \A n \in 1..Len(c.adv.calls) :
               c.adv.calls[n] = SDECall(sde, c.adv.calls[n].fn, c.S, c.t)

\* An Euler call has returned a value in which the drift term and the
\* diffusion term differ and neither is 0.
C8_Witness ==
  /\ Len(call) = 1
  /\ config.fdm.kind = "EulerMethod"
  /\ RLt(Zero, call[1].dt)
  /\ call[1].dt # call[1].dW
  /\ LET a == RMul(SDE_drift(config.fdm.sde, call[1].S, call[1].t), call[1].dt)
         b == RMul(SDE_diffusion(config.fdm.sde, call[1].S, call[1].t), call[1].dW)
     IN  ~IsNaN(a) /\ ~IsNaN(b) /\ a # Zero /\ b # Zero /\ a # b
  /\ config.fdm.sde.addr # config.sde.addr

\* The correction term of the Milstein scheme for call c on model sde,
\* with the forward difference of step h.
MilsteinCorrection(sde, c, h) ==
  LET diffusion == SDE_diffusion(sde, c.S, c.t)
      diffDeriv == RDiv(RSub(SDE_diffusion(sde, RAdd(c.S, h), c.t), diffusion), h)
  IN  RMul(RMul(RMul(Half, diffusion), diffDeriv), RSub(RMul(c.dW, c.dW), c.dt))

\* C9: MilsteinMethod::advance with stepSize > 0 returns
\* S + drift dt + diffusion dW + 0.5 diffusion diffDeriv (dW^2 - dt), with
\* drift and diffusion at (S, t) and diffDeriv the forward difference
\* (diffusion(S+h,t) - diffusion(S,t)) / h, h = 1e-5; it is the Euler result
\* for the same inputs plus that correction term.
C9_Milstein ==
  \A k \in 1..Len(call) :
    LET c == call[k]
        sde == config.fdm.sde
        h == Rat(1, 100000)
        euler == EulerMethod_advance(EulerMethod(sde), c.S, c.t, c.dt, c.dW)
    IN  (config.fdm.kind = "MilsteinMethod" /\ RLt(Zero, c.dt)) =>
          /\ c.adv.threw = ""
          /\ c.adv.value =
               RAdd(RAdd(RAdd(c.S, RMul(SDE_drift(sde, c.S, c.t), c.dt)),
                         RMul(SDE_diffusion(sde, c.S, c.t), c.dW)),
                    MilsteinCorrection(sde, c, h))
          /\ c.adv.value = RAdd(euler.value, MilsteinCorrection(sde, c, h))
          /\ \E n \in 1..Len(c.adv.calls) :
               c.adv.calls[n] = SDECall(sde, "diffusion", RAdd(c.S, h), c.t)
          /\ \A n \in 1..Len(c.adv.calls) :
               /\ c.adv.calls[n].addr = sde.addr
               /\ c.adv.calls[n].t = c.t
               /\ c.adv.calls[n].S \in {c.S, RAdd(c.S, h)}

\* A Milstein call has returned on a model whose diffusion is a square
\* root, at a state where the backward and the forward difference are not
\* the same, with a correction term that is not 0.
C9_Witness ==
  /\ Len(call) = 1
  /\ config.fdm.kind = "MilsteinMethod"
  /\ config.fdm.sde.kind = "CIR"
  /\ RLt(Zero, call[1].dt)
  /\ ~IsNaN(call[1].adv.value)
  /\ MilsteinCorrection(config.fdm.sde, call[1], Rat(1, 100000)) # Zero
  /\ call[1].adv.value #
       EulerMethod_advance(EulerMethod(config.fdm.sde), call[1].S, call[1].t,
                           call[1].dt, call[1].dW).value

\* The predicted state of the predictor-corrector scheme for call c.
PredictedState(sde, c) ==
  RAdd(RAdd(c.S, RMul(SDE_drift(sde, c.S, c.t), c.dt)),
       RMul(SDE_diffusion(sde, c.S, c.t), c.dW))

\* C10: DriftAdjustedPredictorCorrector::advance with stepSize > 0 returns
\* S + 0.5 (drift(S,t) + drift(S_pred, t+dt)) dt + diffusion(S,t) dW with
\* S_pred = S + drift(S,t) dt + diffusion(S,t) dW; the diffusion is
\* evaluated at (S, t) only, the drift at (S, t) and at (S_pred, t+dt).
C10_PredictorCorrector ==
  \A k \in 1..Len(call) :
    LET c == call[k]
        sde == config.fdm.sde
        S_pred == PredictedState(sde, c)
    IN  (config.fdm.kind = "DriftAdjustedPredictorCorrector" /\ RLt(Zero, c.dt)) =>
          /\ c.adv.threw = ""
          /\ c.adv.value =
               RAdd(RAdd(c.S,
                         RMul(RMul(Half,
                                   RAdd(SDE_drift(sde, c.S, c.t),
                                        SDE_drift(sde, S_pred, RAdd(c.t, c.dt)))),
                              c.dt)),
                    RMul(SDE_diffusion(sde, c.S, c.t), c.dW))
          /\ \A n \in CallsOf(c.adv.calls, "diffusion") :
               c.adv.calls[n] = SDECall(sde, "diffusion", c.S, c.t)
          /\ {c.adv.calls[n] : n \in CallsOf(c.adv.calls, "drift")} =
               {SDECall(sde, "drift", c.S, c.t),
                SDECall(sde, "drift", S_pred, RAdd(c.t, c.dt))}

\* A predictor-corrector call has returned where the model's drift and
\* diffusion at the predicted state are not those at the origin state.
C10_Witness ==
  /\ Len(call) = 1
  /\ config.fdm.kind = "DriftAdjustedPredictorCorrector"
  /\ RLt(Zero, call[1].dt)
  /\ ~IsNaN(call[1].adv.value)
  /\ LET sde == config.fdm.sde
         S_pred == PredictedState(sde, call[1])
     IN  /\ SDE_diffusion(sde, S_pred, RAdd(call[1].t, call[1].dt)) #
              SDE_diffusion(sde, call[1].S, call[1].t)
         /\ ~IsNaN(SDE_diffusion(sde, S_pred, RAdd(call[1].t, call[1].dt)))
         /\ SDE_drift(sde, S_pred, RAdd(call[1].t, call[1].dt)) #
              SDE_drift(sde, call[1].S, call[1].t)

-----------------------------------------------------------------------------
(* Payoffs evaluated on a path *)

MaxPathLen == 2

\* The prices of a path and the levels K and B of a payoff.
PayoffPrices == {ToDouble(-1), Zero, One, Two, ToDouble(3)}

PayoffLevels == {One, Two}

\* The non-empty paths of at most n prices.
PayoffPaths(n) == UNION {[1..len -> PayoffPrices] : len \in 1..n}

\* The caller evaluates, on one path, the in and the out barrier payoff of
\* the same (K, B, isCall, isUp) and the European payoff of that strike,
\* each with operator()(path).
Payoff_evaluate ==
  /\ evaluation = <<>>
  /\ \E K \in PayoffLevels, B \in PayoffLevels, isCall \in BOOLEAN,
        isUp \in BOOLEAN, prices \in PayoffPaths(MaxPathLen) :
       evaluation' =
         <<[K |-> K, B |-> B, isCall |-> isCall, isUp |-> isUp, path |-> prices,
            in |-> Payoff_path(BarrierOption(K, B, isCall, isUp, TRUE), prices),
            out |-> Payoff_path(BarrierOption(K, B, isCall, isUp, FALSE), prices),
            vanilla |-> Payoff_path(IF isCall THEN EuropeanCall(K)
                                    ELSE EuropeanPut(K), prices)]>>
  /\ UNCHANGED <<solverVars, fdmVars, builderVars, mediatorVars, watchVars>>

InitPayoff == InitWith({SimulationBuilder})

NextPayoff == Payoff_evaluate

SpecPayoff == InitPayoff /\ [][NextPayoff]_vars

\* C11: on every path the in and the out barrier payoff of the same
\* (K, B, isCall, isUp) add up to the European payoff of strike K (call or
\* put as isCall says): one of the two is that payoff and the other is 0.
C11_InPlusOut ==
  \A k \in 1..Len(evaluation) :
    LET e == evaluation[k]
    IN  /\ RAdd(e.in, e.out) = e.vanilla
        /\ \/ e.in = e.vanilla /\ e.out = Zero
           \/ e.out = e.vanilla /\ e.in = Zero

\* The last price of a two-price path is on the barrier: the in payoff is
\* the European payoff, which is not 0, and the out payoff is 0.
C11_Witness ==
  /\ Len(evaluation) = 1
  /\ Len(evaluation[1].path) = 2
  /\ evaluation[1].path[2] = evaluation[1].B
  /\ evaluation[1].path[1] # evaluation[1].path[2]
  /\ evaluation[1].in = evaluation[1].vanilla
  /\ evaluation[1].in # Zero
  /\ evaluation[1].out = Zero

-----------------------------------------------------------------------------
(* The Asian payoff in solve() *)

\* g is the geometric mean of the prices of pth, as far as roots are
\* modelled: the largest value of the grid whose Len(pth)-th power is at
\* most the product of all the prices.
IsGeometricMeanOf(g, pth) ==
  /\ ~IsNaN(g)
  /\ RLe(Zero, g)
  /\ RMul(g, ToDouble(RootGrid))[2] = 1
  /\ RLe(RPow(g, Len(pth)), Product(pth))
  /\ RLt(Product(pth), RPow(RAdd(g, Rat(1, RootGrid)), Len(pth)))

\* The values of the grid from 0 to the largest price of pth, rounded up.
GridUpTo(pth) ==
  LET top == CHOOSE n \in {(pth[k][1] \div pth[k][2]) + 1 : k \in 1..Len(pth)} :
               \A k \in 1..Len(pth) : (pth[k][1] \div pth[k][2]) + 1 <= n
  IN  {Rat(n, RootGrid) : n \in 0..(top * RootGrid)}

\* C12: the Asian payoff of a path in solve() is taken on the N + 1 values
\* path[0] = S0, ..., path[N], each entering the geometric average once;
\* with N = 1 these are the 2 points S0 and S1.  A call pays
\* max(avg - K, 0) and a put max(K - avg, 0).
C12_AsianAverage ==
  (Running \/ pc = "returned") =>
    \A k \in 1..Len(payoffs) :
      LET e == payoffs[k]
          p == solver[1].payoff
      IN  p.kind = "AsianOption" =>
            /\ Len(e.path) = solver[1].N + 1
            /\ e.path = <<solver[1].S0>> \o StatesOfPath(steps, k - 1)
            /\ \E g \in GridUpTo(e.path) :
                 /\ IsGeometricMeanOf(g, e.path)
                 /\ solver[1].N = 1 =>
                      /\ RLe(RMul(g, g), RMul(solver[1].S0, e.path[2]))
                      /\ RLt(RMul(solver[1].S0, e.path[2]),
                             RMul(RAdd(g, Rat(1, RootGrid)), RAdd(g, Rat(1, RootGrid))))
                 /\ e.value = IF p.isCall THEN RMax(RSub(g, p.K), Zero)
                              ELSE RMax(RSub(p.K, g), Zero)

\* A one-step run has taken an Asian call on <<S0, S1>> whose geometric
\* mean is neither S0 nor S1, and paid avg - K > 0.
C12_Witness ==
  /\ pc = "returned"
  /\ solver[1].N = 1
  /\ solver[1].payoff.kind = "AsianOption"
  /\ solver[1].payoff.isCall
  /\ Len(payoffs[1].path) = 2
  /\ geometricAverage(payoffs[1].path) \notin {payoffs[1].path[1], payoffs[1].path[2]}
  /\ payoffs[1].value # Zero

-----------------------------------------------------------------------------
(* The model without volatility *)

\* The scheme of solver this is bound to a GBM model with sigma = 0.
ZeroVolatility(this) ==
  this.fdm.sde.kind = "GBM" /\ this.fdm.sde.sigma = Zero

\* The path solve() produces for solver this when the generator returns
\* zs[1], ..., zs[N] at the N steps of the path.
RECURSIVE PathWith(_, _, _)
PathWith(this, zs, soFar) ==
  IF Len(soFar) = this.N + 1 THEN soFar
  ELSE LET step == solve_dt(this.T, this.N)
           jj == Len(soFar) - 1
           adv == FDM_advance(this.fdm, soFar[Len(soFar)], solve_time(jj, step),
                              step, solve_dW(step, zs[jj + 1]))
       IN  PathWith(this, zs, Append(soFar, adv.value))

\* The draws of ZValues, as a set.
ZValueSet == {ZValues[k] : k \in 1..Len(ZValues)}

\* C13: with a GBM model of sigma = 0 the path does not depend on the
\* draws: under each scheme, every path of a run is the path any other
\* sequence of draws gives for the same (mu, S0, T, N), index by index, so
\* all M paths of a run are the same.
C13_DrawIndependent ==
  ((Running \/ pc = "returned") /\ ZeroVolatility(solver[1])) =>
    \A zs \in [1..solver[1].N -> ZValueSet] :
      LET other == PathWith(solver[1], zs, <<solver[1].S0>>)
      IN  /\ \A k \in 1..Len(steps) : steps[k].adv.value = other[steps[k].j + 2]
          /\ \A k \in 1..Len(payoffs) : payoffs[k].path = other

\* A run of two paths of two steps has returned, on a GBM model with
\* sigma = 0: its draws were not all the same, the two paths are, and the
\* path moves.
C13_Witness ==
  /\ pc = "returned"
  /\ ZeroVolatility(solver[1])
  /\ Len(payoffs) = 2
  /\ solver[1].N = 2
  /\ \E a, b \in 1..Len(steps) :
       steps[a].j = steps[b].j /\ steps[a].i # steps[b].i /\ steps[a].z # steps[b].z
  /\ payoffs[1].path = payoffs[2].path
  /\ payoffs[1].path[2] # payoffs[1].path[1]


\* k!
RECURSIVE Factorial(_)
Factorial(k) == IF k = 0 THEN 1 ELSE k * Factorial(k - 1)

\* The sum of x^k / k! for k = 0..n.
RECURSIVE ExpSum(_, _)
ExpSum(x, n) ==
  IF n = 0 THEN One
  ELSE RAdd(ExpSum(x, n - 1), RDiv(RPow(x, n), ToDouble(Factorial(n))))

\* An enclosure of e^x for 0 <= x < 10: the exponential series up to x^8/8!
\* from below; from above, that sum and a geometric series over the rest,
\* x^9/9! (1 + x/10 + (x/10)^2 + ...).  Both are 1 at x = 0.
ExpLower(x) == ExpSum(x, 8)

ExpUpper(x) ==
  RAdd(ExpSum(x, 8),
       RMul(RDiv(RPow(x, 9), ToDouble(Factorial(9))),
            RDiv(ToDouble(10), RSub(ToDouble(10), x))))

\* C14 as stated: with a GBM model of sigma = 0, the value at path index j
\* is S0 e^(mu j dt) for every j in 0..N (it lies in every enclosure of that
\* number), under each of the three schemes, which therefore give the path
\* the Euler scheme gives.
C14_ExactExponential ==
  ((Running \/ pc = "returned") /\ ZeroVolatility(solver[1])) =>
    \A k \in 1..Len(payoffs) :
      /\ \A jj \in 0..solver[1].N :
           LET x == RMul(solver[1].fdm.sde.mu, RMul(ToDouble(jj), dt))
           IN  /\ RLe(RMul(solver[1].S0, ExpLower(x)), payoffs[k].path[jj + 1])
               /\ RLe(payoffs[k].path[jj + 1], RMul(solver[1].S0, ExpUpper(x)))
      /\ payoffs[k].path =
           PathWith([solver[1] EXCEPT !.fdm = EulerMethod(solver[1].fdm.sde)],
                    [n \in 1..solver[1].N |-> ZValues[1]], <<solver[1].S0>>)

\* The factor one step multiplies the state by when sigma = 0: 1 + mu dt in
\* the Euler and the Milstein scheme, 1 + mu dt + (mu dt)^2 / 2 in the
\* predictor-corrector scheme.
GrowthFactor(fdm, step) ==
  LET x == RMul(fdm.sde.mu, step)
  IN  IF fdm.kind = "DriftAdjustedPredictorCorrector"
        THEN RAdd(RAdd(One, x), RMul(Half, RMul(x, x)))
        ELSE RAdd(One, x)

\* C14, amended: with a GBM model of sigma = 0, the value at path index j
\* is S0 (1 + mu dt)^j under the Euler and the Milstein scheme, which give
\* the same path, and S0 (1 + mu dt + (mu dt)^2 / 2)^j under the
\* predictor-corrector scheme, for every j in 0..N.
C14_DiscreteGrowth ==
  ((Running \/ pc = "returned") /\ ZeroVolatility(solver[1])) =>
    /\ \A k \in 1..Len(payoffs) : \A jj \in 0..solver[1].N :
         payoffs[k].path[jj + 1] =
           RMul(solver[1].S0, RPow(GrowthFactor(solver[1].fdm, dt), jj))
    /\ \A k \in 1..Len(steps) :
         steps[k].adv.value =
           RMul(solver[1].S0, RPow(GrowthFactor(solver[1].fdm, dt), steps[k].j + 1))

\* A predictor-corrector run on a GBM model with sigma = 0 has returned
\* with a path of two steps that is neither the Euler path nor within the
\* enclosure of S0 e^(mu j dt).
C14_Witness ==
  /\ pc = "returned"
  /\ ZeroVolatility(solver[1])
  /\ solver[1].fdm.kind = "DriftAdjustedPredictorCorrector"
  /\ solver[1].N = 2
  /\ Len(payoffs) > 0
  /\ payoffs[1].path[3] = RMul(solver[1].S0, RPow(GrowthFactor(solver[1].fdm, dt), 2))
  /\ payoffs[1].path[3] #
       RMul(solver[1].S0, RPow(RAdd(One, RMul(solver[1].fdm.sde.mu, dt)), 2))
  /\ RLt(payoffs[1].path[3],
         RMul(solver[1].S0, ExpLower(RMul(solver[1].fdm.sde.mu, RMul(Two, dt)))))

-----------------------------------------------------------------------------
(* A call and a put on the same draws *)

\* Configurations with a European call.
ParityConfigs ==
  {[c EXCEPT !.payoff = EuropeanCall(K)] : c \in SolveConfigs, K \in {One, Two}}

\* After the run with the call, the caller builds the configuration again
\* with the put of the same strike in place of the call and a new
\* MersenneTwister of the same seed, and constructs a new solver from it.
main_rerunWithPut ==
  /\ pc \in {"returned", "solve_threw"}
  /\ Len(runs) = 1
  /\ config.payoff.kind = "EuropeanCall"
  /\ config' = [config EXCEPT !.payoff = EuropeanPut(config.payoff.K)]
  /\ drawn' = MersenneTwister_drawn(config.rng.seed)
  /\ solver' = <<>>
  /\ pc' = "main"
  /\ outcome' = NoOutcome
  /\ UNCHANGED <<dt, sum, i, S, path, j, steps, payoffs, casts, runs>>
  /\ UNCHANGED <<fdmVars, payoffVars, builderVars, mediatorVars, watchVars>>

InitParity == InitWith(ParityConfigs)

NextParity == Next \/ main_rerunWithPut

SpecParity == InitParity /\ [][NextParity]_vars

\* The sum of the terminal values in a log of payoff evaluations.
RECURSIVE SumOfTerminals(_)
SumOfTerminals(log) ==
  IF log = <<>> THEN Zero ELSE RAdd(log[1].S, SumOfTerminals(Tail(log)))

\* C15: at every terminal value S a path ends in, call(S) - put(S) = S - K
\* for the call and the put of strike K; the run with the call and the run
\* with the put on the same draws end the same way, and when they return
\* the difference of their values is the mean of the M terminal values
\* minus K.
C15_PutCallParity ==
  /\ \A k \in 1..Len(payoffs) :
       LET K == config.payoff.K
       IN  RSub(EuropeanCall_call(EuropeanCall(K), payoffs[k].S),
                EuropeanPut_call(EuropeanPut(K), payoffs[k].S))
             = RSub(payoffs[k].S, K)
  /\ Len(runs) = 2 =>
       /\ runs[1].outcome.kind = runs[2].outcome.kind
       /\ runs[1].outcome.what = runs[2].outcome.what
       /\ runs[2].outcome.kind = "value" =>
            RSub(runs[1].outcome.value, runs[2].outcome.value) =
              RSub(RDiv(SumOfTerminals(payoffs), ToDouble(solver[1].M)),
                   config.payoff.K)

\* Both runs have returned, each of two paths: one path ended above the
\* strike and one below, and both values are above 0.
C15_Witness ==
  /\ Len(runs) = 2
  /\ runs[1].outcome.kind = "value"
  /\ runs[2].outcome.kind = "value"
  /\ runs[1].outcome.value # Zero
  /\ runs[2].outcome.value # Zero
  /\ Len(payoffs) = 2
  /\ \E a, b \in 1..2 : /\ RLt(payoffs[a].S, config.payoff.K)
                        /\ RLt(config.payoff.K, payoffs[b].S)

-----------------------------------------------------------------------------
(* SimulationBuilder.hpp, SimulationBuilder.cpp *)

\* What an operation on the builder gave: *this, an exception, or the tuple
\* build() returns.
ReturnedThis == [kind |-> "this", value |-> SimulationBuilder, what |-> ""]

BuilderThrew(kind, what) == [kind |-> kind, value |-> SimulationBuilder, what |-> what]

Built(tuple) == [kind |-> "tuple", value |-> tuple, what |-> ""]

\* The validation of the scalars in setInitialCondition, configureFromUser
\* and build: s0 <= 0 || t <= 0 || n <= 0 || m <= 0.
Builder_scalarsInvalid(s0, t, n, m) ==
  RLe(s0, Zero) \/ RLe(t, Zero) \/ n <= 0 \/ m <= 0

\* The arguments of the setters: a null pointer or an object; doubles that
\* are negative, 0, positive or NaN; ints that are negative, 0 or positive.
SetterSDEs == {NullSDE, GBM(Rat(5, 100), Rat(2, 10), 3)}
SetterFDMs == {NullFDM, EulerMethod(GBM(Rat(5, 100), Rat(2, 10), 3))}
SetterRNGs == {NullRNG, MersenneTwister(1)}
SetterPayoffs == {NullPayoff, EuropeanCall(One)}
SetterDoubles == {ToDouble(-1), Zero, One, NaN}
SetterInts == {-1, 0, 1}

\* Variant: setInitialCondition stores each scalar before it is validated.
setInitialCondition_storeFirst(s0, t, n, m) ==
  IF Builder_scalarsInvalid(s0, t, n, m)
    THEN /\ built' = BuilderThrew("invalid_argument", "initial conditions")
         /\ builder' = [builder EXCEPT !.S0 = s0, !.T = t, !.N = n, !.M = m]
    ELSE /\ builder' = [builder EXCEPT !.S0 = s0, !.T = t, !.N = n, !.M = m]
         /\ built' = ReturnedThis

\* setSDE, setFDM, setRNG, setPayoff on the builder: a null argument throws
\* and leaves the builder as it was.
setSDE(s) ==
  IF s.kind = "null"
    THEN /\ built' = BuilderThrew("invalid_argument", "SDE")
         /\ UNCHANGED builder
    ELSE /\ builder' = [builder EXCEPT !.sde = s]
         /\ built' = ReturnedThis

setFDM(f) ==
  IF f.kind = "null"
    THEN /\ built' = BuilderThrew("invalid_argument", "FDM")
         /\ UNCHANGED builder
    ELSE /\ builder' = [builder EXCEPT !.fdm = f]
         /\ built' = ReturnedThis

setRNG(r) ==
  IF r.kind = "null"
    THEN /\ built' = BuilderThrew("invalid_argument", "RNG")
         /\ UNCHANGED builder
    ELSE /\ builder' = [builder EXCEPT !.rng = r]
         /\ built' = ReturnedThis

setPayoff(p) ==
  IF p.kind = "null"
    THEN /\ built' = BuilderThrew("invalid_argument", "Payoff")
         /\ UNCHANGED builder
    ELSE /\ builder' = [builder EXCEPT !.payoff = p]
         /\ built' = ReturnedThis

\* setInitialCondition(s0, t, n, m)
setInitialCondition(s0, t, n, m) ==
  IF Builder_scalarsInvalid(s0, t, n, m)
    THEN /\ built' = BuilderThrew("invalid_argument", "initial conditions")
         /\ UNCHANGED builder
    ELSE /\ builder' = [builder EXCEPT !.S0 = s0, !.T = t, !.N = n, !.M = m]
         /\ built' = ReturnedThis

\* A caller that makes one call of a setter, with any argument.
SimulationBuilder_setSDE ==
  /\ \E s \in SetterSDEs : setSDE(s)
  /\ UNCHANGED requests
  /\ UNCHANGED <<solverVars, fdmVars, payoffVars, mediatorVars, watchVars>>

SimulationBuilder_setFDM ==
  /\ \E f \in SetterFDMs : setFDM(f)
  /\ UNCHANGED requests
  /\ UNCHANGED <<solverVars, fdmVars, payoffVars, mediatorVars, watchVars>>

SimulationBuilder_setRNG ==
  /\ \E r \in SetterRNGs : setRNG(r)
  /\ UNCHANGED requests
  /\ UNCHANGED <<solverVars, fdmVars, payoffVars, mediatorVars, watchVars>>

SimulationBuilder_setPayoff ==
  /\ \E p \in SetterPayoffs : setPayoff(p)
  /\ UNCHANGED requests
  /\ UNCHANGED <<solverVars, fdmVars, payoffVars, mediatorVars, watchVars>>

SimulationBuilder_setInitialCondition ==
  /\ \E s0 \in SetterDoubles, t \in SetterDoubles, n \in SetterInts, m \in SetterInts :
       setInitialCondition(s0, t, n, m)
  /\ UNCHANGED requests
  /\ UNCHANGED <<solverVars, fdmVars, payoffVars, mediatorVars, watchVars>>


\* What std::cin finds where a number is asked for: a positive number, or
\* no number at all.
UserTokens == {[how |-> "value", v |-> 1], [how |-> "bad", v |-> 0]}

\* std::cin >> x for a double x and for an int x: <<the value of x after
\* it, whether failbit is set after it>>.  A stream that has failed reads
\* nothing and leaves x as it is; a failed conversion stores 0 and sets
\* failbit.
ReadDouble(old, failed, tok) ==
  IF failed THEN <<old, TRUE>>
  ELSE IF tok.how = "value" THEN <<ToDouble(tok.v), FALSE>>
  ELSE <<Zero, TRUE>>

ReadInt(old, failed, tok) ==
  IF failed THEN <<old, TRUE>>
  ELSE IF tok.how = "value" THEN <<tok.v, FALSE>>
  ELSE <<0, TRUE>>

\* What selectSDE, selectFDM, selectRNG and selectPayoff can return.
UserSDEs ==
  {GBM(Rat(5, 100), Rat(2, 10), 3), CEV(Rat(5, 100), Rat(2, 10), Half, 3),
   CIR(Rat(1, 10), Rat(2, 10), Rat(3, 10), 3)}

UserFDMs(sde) ==
  {EulerMethod(sde), MilsteinMethod(sde), DriftAdjustedPredictorCorrector(sde)}

UserRNGs == {MersenneTwister(1)}

UserPayoffs == {EuropeanCall(One), BarrierOption(One, Two, TRUE, TRUE, TRUE)}

\* configureFromUser(): the four scalars are read into the members, then
\* validated; then the four components are selected and assigned one after
\* the other.  selected is the number of components assigned before one of
\* the select functions throws (4: none throws); a stream that has failed
\* makes selectSDE throw.
SimulationBuilder_configureFromUser ==
  /\ \E tokS0 \in UserTokens, tokT \in UserTokens, tokN \in UserTokens,
        tokM \in UserTokens :
       LET rS0 == ReadDouble(builder.S0, FALSE, tokS0)
           rT == ReadDouble(builder.T, rS0[2], tokT)
           rN == ReadInt(builder.N, rT[2], tokN)
           rM == ReadInt(builder.M, rN[2], tokM)
           read == [builder EXCEPT !.S0 = rS0[1], !.T = rT[1], !.N = rN[1], !.M = rM[1]]
       IN  IF Builder_scalarsInvalid(read.S0, read.T, read.N, read.M)
             THEN /\ builder' = read
                  /\ built' = BuilderThrew("invalid_argument", "initial conditions")
             ELSE \E selected \in (IF rM[2] THEN {0} ELSE 0..4), s \in UserSDEs :
                  \E f \in UserFDMs(s), r \in UserRNGs, p \in UserPayoffs :
                    /\ builder' =
                         [read EXCEPT !.sde = IF selected >= 1 THEN s ELSE @,
                                      !.fdm = IF selected >= 2 THEN f ELSE @,
                                      !.rng = IF selected >= 3 THEN r ELSE @,
                                      !.payoff = IF selected >= 4 THEN p ELSE @]
                    /\ built' = IF selected = 4 THEN ReturnedThis
                                ELSE BuilderThrew("invalid_argument", "input")
  /\ UNCHANGED requests
  /\ UNCHANGED <<solverVars, fdmVars, payoffVars, mediatorVars, watchVars>>

\* build() const: what it returns or throws on a builder with fields b.
SimulationBuilder_build_const(b) ==
  IF MCSolver_componentsNull(b)
    THEN BuilderThrew("runtime_error", "components")
  ELSE IF Builder_scalarsInvalid(b.S0, b.T, b.N, b.M)
    THEN BuilderThrew("runtime_error", "initial conditions")
  ELSE Built(b)

\* build() const on the builder
build ==
  /\ built' = SimulationBuilder_build_const(builder)
  /\ UNCHANGED builder

SimulationBuilder_build ==
  /\ build
  /\ UNCHANGED requests
  /\ UNCHANGED <<solverVars, fdmVars, payoffVars, mediatorVars, watchVars>>

InitBuilder == InitWith({SimulationBuilder})

NextBuilder ==
  \/ SimulationBuilder_setSDE
  \/ SimulationBuilder_setFDM
  \/ SimulationBuilder_setRNG
  \/ SimulationBuilder_setPayoff
  \/ SimulationBuilder_setInitialCondition
  \/ SimulationBuilder_configureFromUser
  \/ SimulationBuilder_build

SpecBuilder == InitBuilder /\ [][NextBuilder]_vars

\* C16: whatever operations the builder went through, a tuple that build()
\* returns has four non-null components and S0, T, N, M above 0, and
\* build() on a new builder returns no tuple.
C16_BuildValidates ==
  /\ built.kind = "tuple" =>
       /\ built.value.sde.kind # "null"
       /\ built.value.fdm.kind # "null"
       /\ built.value.rng.kind # "null"
       /\ built.value.payoff.kind # "null"
       /\ RLt(Zero, built.value.S0)
       /\ RLt(Zero, built.value.T)
       /\ built.value.N > 0
       /\ built.value.M > 0
  /\ builder = SimulationBuilder => built.kind # "tuple"


(***************************************************************************)
(* How solve() tells a path payoff from a terminal payoff                  *)
(***************************************************************************)

\* C17: in a run of solve() that returned, the payoff's path dependence
\* was determined once, whatever the number M of paths.  (In solve() the
\* determination is the dynamic_pointer_cast<AsianOption> of the payoff,
\* which casts counts.)
C17_DecidedOnce == pc = "returned" => casts = 1


(***************************************************************************)
(* The step size of a constructed solver                                   *)
(***************************************************************************)

\* Configurations the constructor accepts, with a maturity T down to the
\* least positive double.
UnderflowConfigs ==
  {Config(ms[1], ms[2], MersenneTwister(seed), p, One, T, N, 1) :
     ms \in ModelAndScheme, seed \in Seeds,
     p \in {EuropeanCall(One), EuropeanPut(Two)},
     T \in {DenormMin, RMul(Two, DenormMin), One}, N \in 1..3}

InitUnderflow == InitWith(UnderflowConfigs)

SpecUnderflow == InitUnderflow /\ [][Next]_vars

\* solve() has passed its check of dt in the current run.
StepSizeChecked == pc \in {"path_loop", "step_loop", "returned", "solve_threw"}

InvalidConfiguration == Exception("runtime_error", "dt")

\* C18 as stated: on a solver whose construction succeeded, solve() never
\* fails with InvalidConfiguration.
C18_NeverInvalidConfiguration == outcome # InvalidConfiguration

\* C18, amended: on a constructed solver with T > 0 and N > 0, solve()
\* fails with InvalidConfiguration exactly when the quotient T / N is at
\* most half the least positive double, and then rounds to 0; for every
\* other T > 0 and N > 0 it computes dt > 0 and goes on to the path loop.
C18_PositiveStep ==
  (StepSizeChecked /\ RLt(Zero, solver[1].T) /\ solver[1].N > 0) =>
    LET this == solver[1]
        quotient == RDiv(this.T, ToDouble(this.N))
    IN  IF RLe(quotient, RMul(Half, DenormMin))
          THEN /\ pc = "solve_threw"
               /\ outcome = InvalidConfiguration
               /\ steps = <<>>
          ELSE /\ RLt(Zero, dt)
               /\ outcome # InvalidConfiguration
               /\ pc = "solve_threw" => steps # <<>>

\* A maturity of twice the least positive double in three steps: the
\* quotient is below the least positive double and the path loop has run.
C18_Witness ==
  /\ pc = "returned"
  /\ solver[1].T = RMul(Two, DenormMin)
  /\ solver[1].N = 3
  /\ dt = DenormMin
  /\ Len(steps) = 3


(***************************************************************************)
(* The states at which solve() has the diffusion evaluated                 *)
(***************************************************************************)

\* The states at which the advance calls of the current run evaluated the
\* model's diffusion.
DiffusionStates ==
  UNION {{steps[k].adv.calls[n].S : n \in CallsOf(steps[k].adv.calls, "diffusion")} :
           k \in 1..Len(steps)}

\* C19: in a run of solve(), no state handed to advance and no state at
\* which a scheme has the diffusion evaluated is below 0: each of the
\* latter is the state handed to advance or that state plus 1e-5.
C19_NoNegativeRoot ==
  /\ \A k \in 1..Len(steps) :
       /\ ~RLt(steps[k].S, Zero)
       /\ \A n \in CallsOf(steps[k].adv.calls, "diffusion") :
            steps[k].adv.calls[n].S \in
              {steps[k].S, RAdd(steps[k].S, Rat(1, 100000))}
  /\ \A x \in DiffusionStates : ~RLt(x, Zero)

\* A run under the model with a square root in which a step went below 0
\* after an earlier step had been taken: solve() stopped there.
C19_Witness ==
  /\ pc = "solve_threw"
  /\ outcome = Exception("runtime_error", "negative")
  /\ solver[1].sde.kind = "CIR"
  /\ solver[1].fdm.kind = "MilsteinMethod"
  /\ Len(steps) >= 2
  /\ DiffusionStates # {}


(***************************************************************************)
(* Termination of solve()                                                  *)
(***************************************************************************)

\* Configurations the constructor accepts, over every model, scheme and
\* sequence of draws.
LiveConfigs ==
  {Config(ms[1], ms[2], MersenneTwister(seed), p, One, ToDouble(N), N, M) :
     ms \in ModelAndScheme, seed \in Seeds,
     p \in {EuropeanCall(One), AsianOption(One, TRUE)},
     N \in 1..MaxN, M \in 1..MaxM}

InitLive == InitWith(LiveConfigs)

\* The position of the thread that constructs the solver and calls solve().
position == <<pc, i, j>>

\* A statement is left to execute, and the thread moves to another position.
main_proceeds ==
  /\ pc \in {"main", "constructed", "path_loop", "step_loop"}
  /\ pc' \in {"ctor_threw", "constructed", "path_loop", "step_loop", "returned",
              "solve_threw"}
  /\ i' \in {0, i, i + 1}
  /\ j' \in {0, j, j + 1}

\* The constructor and solve() are sequential code on one thread: while a
\* statement is left to execute, the thread executes one.  Every step of
\* Next moves the position, and does so as main_proceeds says
\* (StepsProceed).
SpecLive == InitLive /\ [][Next]_vars /\ WF_position(main_proceeds)

StepsProceed == [][main_proceeds /\ position' # position]_vars

Terminated == pc \in {"returned", "solve_threw"}

\* The advance calls of a run that returned are those of paths 0..M-1 in
\* order, each with steps 0..N-1 in order, and its payoff evaluations are
\* those of paths 0..M-1 in order.
ExactlyMPathsOfNSteps ==
  LET N == solver[1].N
      M == solver[1].M
  IN  /\ Len(steps) = N * M
      /\ \A k \in 1..Len(steps) :
           /\ steps[k].i = (k - 1) \div N
           /\ steps[k].j = (k - 1) % N
      /\ Len(payoffs) = M
      /\ \A k \in 1..Len(payoffs) : payoffs[k].i = k - 1

\* The advance calls of a run that failed are those of paths in order, each
\* with its steps in order, up to the call that failed: no path was started
\* again.
NoRetry ==
  LET N == solver[1].N
      M == solver[1].M
  IN  /\ Len(steps) <= N * M
      /\ \A k \in 1..Len(steps) :
           /\ steps[k].i = (k - 1) \div N
           /\ steps[k].j = (k - 1) % N
      /\ Len(payoffs) = IF steps = <<>> THEN 0 ELSE steps[Len(steps)].i

\* C20: every call of solve() on a constructed solver comes to an end, by a
\* failure or by a value; a run that returned a value made exactly N M
\* advance calls, N for each of M paths, and M payoff evaluations; a run
\* that failed started no path again.
C20_Terminates ==
  (pc = "constructed") ~>
    /\ Terminated
    /\ pc = "returned" => ExactlyMPathsOfNSteps
    /\ pc = "solve_threw" => NoRetry

\* A run of MaxM paths of MaxN steps that returned.
C20_Witness ==
  /\ pc = "returned"
  /\ solver[1].N = MaxN
  /\ solver[1].M = MaxM
  /\ Len(steps) = MaxN * MaxM
  /\ Len(payoffs) = MaxM


-----------------------------------------------------------------------------
(* MCMediator.hpp, MCMediator.cpp *)

\* The mediator has been constructed and holds its solver.
MCMediator == [kind |-> "mediator", value |-> NaN, what |-> ""]

\* Variant: a failure of solve() is replaced by the value 0.
MCMediator_return_replaced(solved) ==
  IF solved.kind = "value" THEN solved ELSE Value(Zero)

\* return solver->solve();
MCMediator_return(solved) == solved

\* MCMediator::MCMediator(builder): builder->build(), then the solver is
\* constructed from the tuple.
MCMediator_ctor ==
  /\ pc = "main"
  /\ mediator = <<>>
  /\ LET tuple == SimulationBuilder_build_const(builder)
         thrown == IF tuple.kind # "tuple"
                     THEN Exception(tuple.kind, tuple.what)
                   ELSE IF MCSolver_componentsNull(tuple.value)
                     THEN Exception("invalid_argument", "components")
                   ELSE IF MCSolver_scalarsInvalid(tuple.value)
                     THEN Exception("invalid_argument", "initial conditions")
                   ELSE NoOutcome
     IN  /\ built' = tuple
         /\ outcome' = thrown
         /\ IF thrown # NoOutcome
              THEN /\ pc' = "ctor_threw"
                   /\ solver' = <<>>
                   /\ mediator' = <<thrown>>
            ELSE /\ pc' = "constructed"
                 /\ solver' = <<tuple.value>>
                 /\ mediator' = <<MCMediator>>
  /\ UNCHANGED <<config, drawn, dt, sum, i, S, path, j, steps, payoffs, casts, runs>>
  /\ UNCHANGED <<builder, requests, fdmVars, payoffVars, watchVars>>

\* runSimulation(): the call of solve() is the steps of solve() above; this
\* is its return, with what solve() returned or threw.
MCMediator_runSimulation ==
  /\ pc \in {"returned", "solve_threw"}
  /\ mediator = <<MCMediator>>
  /\ mediator' = <<MCMediator_return(outcome)>>
  /\ UNCHANGED <<solverVars, fdmVars, payoffVars, builderVars, watchVars>>

\* A builder as its setters leave it, holding the caller's configuration:
\* configurations that build() rejects, configurations whose runs return or
\* throw in a step, and configurations whose step size underflows to 0.
MediatorConfigs ==
  CtorConfigs
    \cup {Config(ms[1], ms[2], MersenneTwister(seed), p, One, TN[1], TN[2], M) :
            ms \in ModelAndScheme, seed \in Seeds,
            p \in {EuropeanCall(One), AsianOption(One, TRUE)},
            TN \in {<<One, 1>>, <<Two, 2>>, <<DenormMin, 2>>}, M \in 1..MaxM}

InitMediator ==
  /\ config \in MediatorConfigs
  /\ builder = config
  /\ InitLocals

NextMediator ==
  \/ MCMediator_ctor
  \/ solve_begin
  \/ solve_path
  \/ solve_step
  \/ solve_payoff
  \/ solve_return
  \/ MCMediator_runSimulation

SpecMediator == InitMediator /\ [][NextMediator]_vars

\* runSimulation() has returned or thrown.
RunSimulationDone ==
  pc \in {"returned", "solve_threw"} /\ mediator # <<MCMediator>>

\* The failures that reject a configuration: those of build(), those of
\* the constructor of the solver, and InvalidConfiguration.
ConfigurationFailures ==
  {Exception("runtime_error", "components"),
   Exception("runtime_error", "initial conditions"),
   Exception("invalid_argument", "components"),
   Exception("invalid_argument", "initial conditions"),
   InvalidConfiguration}

\* C21 as stated, on the failures that reject a configuration: each is
\* raised by the construction of the mediator, before any draw.
C21_ValidatedAtConstruction ==
  outcome \in ConfigurationFailures =>
    /\ pc = "ctor_threw"
    /\ drawn = MersenneTwister_drawn(builder.rng.seed)

\* C21, amended: the construction of the mediator calls build() and
\* constructs the solver from its tuple: on a builder that build() or the
\* constructor of the solver rejects, it has thrown with no draw made and
\* no solver; on any other, the solver holds the builder's fields.
\* InvalidConfiguration is raised by runSimulation(), before any draw.
\* runSimulation() ends with exactly what the one call of solve() returned
\* or threw.
C21_PassThrough ==
  /\ pc # "main" =>
       IF MCSolver_componentsNull(builder) \/ RLe(builder.S0, Zero)
            \/ RLe(builder.T, Zero) \/ builder.N <= 0 \/ builder.M <= 0
         THEN /\ pc = "ctor_threw"
              /\ mediator = <<outcome>>
              /\ outcome \in ConfigurationFailures \ {InvalidConfiguration}
              /\ solver = <<>>
              /\ drawn = MersenneTwister_drawn(builder.rng.seed)
              /\ steps = <<>>
              /\ runs = <<>>
       ELSE /\ pc # "ctor_threw"
            /\ built = Built(builder)
            /\ solver = <<builder>>
  /\ outcome = InvalidConfiguration =>
       /\ pc = "solve_threw"
       /\ drawn = MersenneTwister_drawn(builder.rng.seed)
       /\ steps = <<>>
  /\ Len(runs) <= 1
  /\ pc \in {"constructed", "path_loop", "step_loop"} => mediator = <<MCMediator>>
  /\ RunSimulationDone =>
       /\ Len(runs) = 1
       /\ mediator = <<runs[1].outcome>>
       /\ mediator = <<outcome>>

\* runSimulation() has thrown the negative-price failure of a run that had
\* evaluated the payoff of a first path.
C21_Witness ==
  /\ RunSimulationDone
  /\ mediator = <<Exception("runtime_error", "negative")>>
  /\ Len(payoffs) = 1
  /\ Len(steps) >= 2


-----------------------------------------------------------------------------
(* The path buffer of solve() *)

\* C22: every advance call of a run is made with the state the path is in
\* (S0 at step 0, otherwise what the call before it returned), the time
\* j dt, the step size dt = T / N and dW = sqrt(dt) z.  In the step loop
\* the buffer has N + 1 places, holds S0 at 0 and the state after k steps
\* at k for every step taken, S is its last value written, and the places
\* not yet written hold the 0 of a new buffer.  Every payoff is evaluated
\* on the N + 1 states of its own path, with S the last of them.
C22_PathBuffer ==
  /\ \A k \in 1..Len(steps) :
       LET e == steps[k]
           this == solver[1]
       IN  /\ e.S = IF e.j = 0 THEN this.S0 ELSE steps[k - 1].adv.value
           /\ e.t = RMul(ToDouble(e.j), e.dt)
           /\ e.dt = RDiv(this.T, ToDouble(this.N))
           /\ e.dW = RMul(Sqrt(e.dt), e.z)
  /\ pc = "step_loop" =>
       LET this == solver[1]
       IN  /\ Len(path) = this.N + 1
           /\ path[1] = this.S0
           /\ \A k \in 1..j : path[k + 1] = steps[Len(steps) - j + k].adv.value
           /\ \A k \in (j + 2)..(this.N + 1) : path[k] = Zero
           /\ S = path[j + 1]
  /\ \A k \in 1..Len(payoffs) :
       LET this == solver[1]
       IN  /\ Len(payoffs[k].path) = this.N + 1
           /\ payoffs[k].path = <<this.S0>> \o StatesOfPath(steps, k - 1)
           /\ payoffs[k].S = payoffs[k].path[this.N + 1]

\* The second path of a run has taken the first of its two steps, to a
\* state that the first path was not in after its first step.
C22_Witness ==
  /\ pc = "step_loop"
  /\ solver[1].N = 2
  /\ i = 1
  /\ j = 1
  /\ path[2] # path[1]
  /\ path[2] # payoffs[1].path[2]
  /\ payoffs[1].path[3] # Zero


-----------------------------------------------------------------------------
(* The model held by the solver and the model bound to the scheme *)

\* Models for the solver's own slot.
SlotModels == {GBM(One, One, 1), GBM(One, Zero, 1), CIR(One, One, Two, 1)}

\* Builders whose model and whose scheme's model are two objects, with
\* the same parameters or not.
SlotConfigs ==
  {Config(slot, f, MersenneTwister(seed), p, One, ToDouble(N), N, M) :
     slot \in SlotModels, f \in UNION {Schemes(m) : m \in Models(2)},
     seed \in {0, 3, 5}, p \in {EuropeanCall(One), AsianOption(One, TRUE)},
     N \in 1..MaxN, M \in 1..MaxM}

\* After runSimulation(), the caller fills a new builder with the same
\* values but another model, a new MersenneTwister of the same seed, and
\* constructs a new mediator from it.
main_rerunWithModel ==
  /\ RunSimulationDone
  /\ Len(runs) = 1
  /\ \E slot \in SlotModels \ {config.sde} :
       config' = [config EXCEPT !.sde = slot]
  /\ builder' = config'
  /\ built' = NoOutcome
  /\ UNCHANGED requests
  /\ mediator' = <<>>
  /\ drawn' = MersenneTwister_drawn(config.rng.seed)
  /\ solver' = <<>>
  /\ pc' = "main"
  /\ outcome' = NoOutcome
  /\ UNCHANGED <<dt, sum, i, S, path, j, steps, payoffs, casts, runs>>
  /\ UNCHANGED <<fdmVars, payoffVars, watchVars>>

InitSlot ==
  /\ config \in SlotConfigs
  /\ builder = config
  /\ InitLocals

NextSlot == NextMediator \/ main_rerunWithModel

SpecSlot == InitSlot /\ [][NextSlot]_vars

\* C23: build() and the constructor of the solver accept a builder whose
\* model is not the model of its scheme; every drift and diffusion that a
\* run evaluates is that of the scheme's model object, never that of the
\* solver's; and the run on a second builder that differs from the first
\* in its model only, on the same draws, ends as the first did.
C23_SlotIgnored ==
  /\ pc # "main" =>
       /\ pc # "ctor_threw"
       /\ built = Built(builder)
       /\ solver = <<builder>>
  /\ \A k \in 1..(IF solver = <<>> THEN 0 ELSE Len(steps)) :
       /\ steps[k].adv.calls # <<>>
       /\ \A n \in 1..Len(steps[k].adv.calls) :
            LET c == steps[k].adv.calls[n]
            IN  /\ c.addr = solver[1].fdm.sde.addr
                /\ c.addr # solver[1].sde.addr
                /\ c = SDECall(solver[1].fdm.sde, c.fn, c.S, c.t)
  /\ Len(runs) = 2 => runs[1].outcome = runs[2].outcome

\* Two runs have returned the same value, not 0, the second on a builder
\* whose model has a square-root diffusion and whose scheme's model has
\* none.
C23_Witness ==
  /\ Len(runs) = 2
  /\ runs[2].outcome.kind = "value"
  /\ runs[2].outcome.value # Zero
  /\ config.sde.kind = "CIR"
  /\ config.fdm.sde.kind = "GBM"
  /\ solver = <<config>>


-----------------------------------------------------------------------------
(* The barrier payoff in solve() *)

\* price is at or beyond the barrier of p: at or above B for an up barrier,
\* at or below B for a down barrier.
AtBarrier(p, price) == IF p.isUp THEN RLe(p.B, price) ELSE RLe(price, p.B)

\* max(S - K, 0) for a call and max(K - S, 0) for a put.
VanillaOf(p, price) ==
  IF p.isCall THEN RMax(RSub(price, p.K), Zero) ELSE RMax(RSub(p.K, price), Zero)

\* pth with its k-th price replaced by v.
WithInterior(pth, k, v) == [pth EXCEPT ![k] = v]

\* C24: solve() gives a barrier payoff the terminal value S_N of the path
\* only.  The barrier counts as hit exactly when S_N is at or beyond B, so
\* the payoff of a path is decided by S_N: two paths of a run with the same
\* terminal value are paid the same, and so is every path that differs
\* from a simulated one before its terminal value, whether or not it
\* crosses the barrier there.
C24_TerminalOnly ==
  (Running \/ pc = "returned") =>
    \A k \in 1..Len(payoffs) :
      LET e == payoffs[k]
          p == solver[1].payoff
          N == solver[1].N
      IN  p.kind = "BarrierOption" =>
            /\ e.form = "terminal"
            /\ e.S = e.path[N + 1]
            /\ e.value = IF p.isIn = AtBarrier(p, e.S) THEN VanillaOf(p, e.S)
                         ELSE Zero
            /\ \A n \in 1..Len(payoffs) :
                 payoffs[n].S = e.S => payoffs[n].value = e.value
            /\ \A n \in 1..N, v \in PayoffPrices :
                 solve_payoffValue(p, WithInterior(e.path, n, v), e.S) = e.value

\* An in payoff is 0 on a path that is at or beyond the barrier after its
\* first step and not at its end, while another path of the run has the
\* same terminal value and never reaches the barrier.
C24_Witness ==
  /\ pc = "returned"
  /\ solver[1].payoff.kind = "BarrierOption"
  /\ solver[1].payoff.isIn
  /\ \E k, n \in 1..Len(payoffs) :
       /\ Len(payoffs[k].path) = 3
       /\ AtBarrier(solver[1].payoff, payoffs[k].path[2])
       /\ ~AtBarrier(solver[1].payoff, payoffs[k].path[3])
       /\ payoffs[n].S = payoffs[k].S
       /\ \A m \in 1..3 : ~AtBarrier(solver[1].payoff, payoffs[n].path[m])
       /\ payoffs[k].value = Zero


-----------------------------------------------------------------------------
(* The two forms of a payoff *)

\* Configurations of a run on a European or a barrier payoff.
FormConfigs ==
  {Config(GBM(One, One, 1), EulerMethod(GBM(One, One, 2)), MersenneTwister(seed),
          p, One, ToDouble(N), N, M) :
     seed \in {1, 3}, N \in 1..MaxN, M \in 1..MaxM,
     p \in {EuropeanCall(One), EuropeanPut(Two),
            BarrierOption(One, Two, TRUE, TRUE, TRUE)}}

InitForms == InitWith(FormConfigs)

\* A run of the solver, and a caller that evaluates payoffs on a path.
NextForms == Next \/ Payoff_evaluate

SpecForms == InitForms /\ [][NextForms]_vars

\* The sum of the payoffs of the logged paths, each taken with
\* operator()(path).
RECURSIVE SumOfPathForms(_, _)
SumOfPathForms(p, log) ==
  IF log = <<>> THEN Zero
  ELSE RAdd(SumOfPathForms(p, SubSeq(log, 1, Len(log) - 1)),
            Payoff_path(p, log[Len(log)].path))

\* C25: for a European call, a European put and a barrier option, the
\* payoff of a non-empty path taken with operator()(path) is the payoff
\* taken with operator()(double) on the last price of the path; so each
\* payoff solve() adds, and the value it returns, is what the other form
\* gives on the same paths.
C25_FormsAgree ==
  /\ \A k \in 1..Len(evaluation) :
       LET e == evaluation[k]
           last == e.path[Len(e.path)]
       IN  /\ e.in = Payoff_call(BarrierOption(e.K, e.B, e.isCall, e.isUp, TRUE), last)
           /\ e.out = Payoff_call(BarrierOption(e.K, e.B, e.isCall, e.isUp, FALSE), last)
           /\ e.vanilla = Payoff_call(IF e.isCall THEN EuropeanCall(e.K)
                                      ELSE EuropeanPut(e.K), last)
  /\ (Running \/ pc = "returned") =>
       /\ \A k \in 1..Len(payoffs) :
            /\ payoffs[k].form = "terminal"
            /\ payoffs[k].value = Payoff_path(solver[1].payoff, payoffs[k].path)
       /\ sum = SumOfPathForms(solver[1].payoff, payoffs)
  /\ pc = "returned" =>
       outcome.value = RDiv(SumOfPathForms(solver[1].payoff, payoffs),
                            ToDouble(solver[1].M))

\* The payoffs taken with operator()(path) on a path of two different
\* prices are not all 0, and a run on a barrier payoff has returned a value
\* that is not 0.
C25_Witness ==
  /\ Len(evaluation) = 1
  /\ Len(evaluation[1].path) = 2
  /\ evaluation[1].path[1] # evaluation[1].path[2]
  /\ evaluation[1].in # Zero
  /\ evaluation[1].in #
       Payoff_call(BarrierOption(evaluation[1].K, evaluation[1].B,
                                 evaluation[1].isCall, evaluation[1].isUp, TRUE),
                   evaluation[1].path[1])
  /\ pc = "returned"
  /\ solver[1].payoff.kind = "BarrierOption"
  /\ solver[1].N = 2
  /\ outcome.value # Zero


-----------------------------------------------------------------------------
(* A sequence of calls on one builder *)

\* The number of calls the caller makes.
MaxRequests == 3

\* The builder the caller starts from: a new one, or one that main.cpp's
\* calls have filled.
RequestBuilders ==
  {SimulationBuilder,
   Config(GBM(Rat(5, 100), Rat(2, 10), 3), EulerMethod(GBM(Rat(5, 100), Rat(2, 10), 4)),
          MersenneTwister(1), EuropeanCall(One), One, One, 1, 1)}

\* The arguments the caller passes.
RequestSDEs == {NullSDE, GBM(One, One, 5), GBM(One, Zero, 6)}
RequestFDMs == {NullFDM, EulerMethod(GBM(One, One, 5))}
RequestRNGs == {NullRNG, MersenneTwister(2)}
RequestPayoffs == {NullPayoff, EuropeanPut(Two)}
RequestScalars ==
  {<<Two, Two, 2, 2>>, <<One, Two, 1, 2>>, <<NaN, NaN, 2, 1>>,
   <<Zero, Two, 2, 2>>, <<Two, ToDouble(-1), 2, 2>>, <<Two, Two, 0, 2>>,
   <<Two, Two, 2, -1>>}

\* What the caller notes of a call: the operation, its arguments and
\* whether it returned.
Requested(op, arg) ==
  requests' = Append(requests, [op |-> op, arg |-> arg,
                                returned |-> built'.kind \in {"this", "tuple"}])

main_setSDE ==
  /\ Len(requests) < MaxRequests
  /\ \E s \in RequestSDEs : setSDE(s) /\ Requested("setSDE", s)
  /\ UNCHANGED <<solverVars, fdmVars, payoffVars, mediatorVars, watchVars>>

main_setFDM ==
  /\ Len(requests) < MaxRequests
  /\ \E f \in RequestFDMs : setFDM(f) /\ Requested("setFDM", f)
  /\ UNCHANGED <<solverVars, fdmVars, payoffVars, mediatorVars, watchVars>>

main_setRNG ==
  /\ Len(requests) < MaxRequests
  /\ \E r \in RequestRNGs : setRNG(r) /\ Requested("setRNG", r)
  /\ UNCHANGED <<solverVars, fdmVars, payoffVars, mediatorVars, watchVars>>

main_setPayoff ==
  /\ Len(requests) < MaxRequests
  /\ \E p \in RequestPayoffs : setPayoff(p) /\ Requested("setPayoff", p)
  /\ UNCHANGED <<solverVars, fdmVars, payoffVars, mediatorVars, watchVars>>

main_setInitialCondition ==
  /\ Len(requests) < MaxRequests
  /\ \E a \in RequestScalars :
       /\ setInitialCondition(a[1], a[2], a[3], a[4])
       /\ Requested("setInitialCondition", a)
  /\ UNCHANGED <<solverVars, fdmVars, payoffVars, mediatorVars, watchVars>>

main_build ==
  /\ Len(requests) < MaxRequests
  /\ build
  /\ Requested("build", <<>>)
  /\ UNCHANGED <<solverVars, fdmVars, payoffVars, mediatorVars, watchVars>>

InitRequests ==
  /\ config \in RequestBuilders
  /\ builder = config
  /\ InitLocals

NextRequests ==
  \/ main_setSDE
  \/ main_setFDM
  \/ main_setRNG
  \/ main_setPayoff
  \/ main_setInitialCondition
  \/ main_build

SpecRequests == InitRequests /\ [][NextRequests]_vars

\* The argument of the last call of op among the first n that returned,
\* and initial where there is none.
RECURSIVE LastReturned(_, _, _)
LastReturned(op, n, initial) ==
  IF n = 0 THEN initial
  ELSE IF requests[n].op = op /\ requests[n].returned THEN requests[n].arg
  ELSE LastReturned(op, n - 1, initial)

\* The fields of a builder for which the first n calls were made on
\* start, if a setter stores its arguments when it returns and nothing
\* when it throws.
ExpectedBuilder(start, n) ==
  LET scalars == LastReturned("setInitialCondition", n,
                              <<start.S0, start.T, start.N, start.M>>)
  IN  Config(LastReturned("setSDE", n, start.sde),
             LastReturned("setFDM", n, start.fdm),
             LastReturned("setRNG", n, start.rng),
             LastReturned("setPayoff", n, start.payoff),
             scalars[1], scalars[2], scalars[3], scalars[4])

\* The claim's rejected inputs: a null pointer, and scalars of which one is
\* at or below 0.
RejectedInput(r) ==
  CASE r.op = "setInitialCondition" ->
         \/ (~IsNaN(r.arg[1]) /\ r.arg[1][1] <= 0)
         \/ (~IsNaN(r.arg[2]) /\ r.arg[2][1] <= 0)
         \/ r.arg[3] <= 0
         \/ r.arg[4] <= 0
    [] r.op = "build" -> FALSE
    [] OTHER -> r.arg.kind = "null"

\* C26: a setter given a null pointer, or scalars of which one is at or
\* below 0, throws and no field of the builder changes; the fields of the
\* builder after any sequence of calls are, slot by slot, the arguments of
\* the last setter call that returned (setInitialCondition setting S0, T,
\* N, M together), and a build() that returns gives these fields.
C26_SettersAtomic ==
  /\ \A n \in 1..Len(requests) :
       RejectedInput(requests[n]) => ~requests[n].returned
  /\ builder = ExpectedBuilder(config, Len(requests))
  /\ (requests # <<>> /\ requests[Len(requests)].op = "build"
        /\ requests[Len(requests)].returned) =>
       built = Built(ExpectedBuilder(config, Len(requests)))

\* On a builder that main.cpp's calls filled, a setSDE that returned, then
\* a setInitialCondition that threw on N = 0 with S0, T and M above 0, then
\* a build() that returned the model of the first call and the scalars the
\* builder started with.
C26_Witness ==
  /\ Len(requests) = 3
  /\ requests[1].op = "setSDE" /\ requests[1].returned
  /\ requests[2].op = "setInitialCondition" /\ ~requests[2].returned
  /\ requests[2].arg = <<Two, Two, 0, 2>>
  /\ requests[3].op = "build" /\ requests[3].returned
  /\ built.kind = "tuple"
  /\ built.value.sde = requests[1].arg
  /\ built.value.sde # config.sde
  /\ built.value.S0 = config.S0
  /\ built.value.N = config.N


-----------------------------------------------------------------------------
(* StopWatch.hpp, StopWatch.cpp *)

\* The calls the caller makes on the StopWatch, and the last reading the
\* clock gives in them.
MaxEvents == 4
MaxTime == 3

\* std::chrono::steady_clock counts in ticks of a fixed fraction of a
\* second; duration_cast<duration<double>> divides a number of ticks by
\* the number of ticks in a second.
TicksPerSecond == 4

duration_cast(ticks) == Rat(ticks, TicksPerSecond)

\* std::chrono::steady_clock::now(): a reading not before the last one.
steady_clock_now == now..MaxTime

\* Variant: StartStopWatch leaves endTime as it is.
StartStopWatch_endTime_kept == endTime

\* endTime after StartStopWatch
StartStopWatch_endTime == time_point_min

\* What the caller notes of a call: the operation and the reading of the
\* clock in it (the last reading, for a call that does not read the clock).
Called(op, at) == events' = Append(events, [op |-> op, at |-> at])

StopWatch_StartStopWatch ==
  /\ Len(events) < MaxEvents
  /\ \E t \in steady_clock_now :
       /\ now' = t
       /\ startTime' = t
       /\ endTime' = StartStopWatch_endTime
       /\ Called("Start", t)
  /\ UNCHANGED reading
  /\ UNCHANGED <<solverVars, fdmVars, payoffVars, builderVars, mediatorVars>>

StopWatch_StopStopWatch ==
  /\ Len(events) < MaxEvents
  /\ \E t \in steady_clock_now :
       /\ now' = t
       /\ endTime' = t
       /\ Called("Stop", t)
  /\ UNCHANGED <<startTime, reading>>
  /\ UNCHANGED <<solverVars, fdmVars, payoffVars, builderVars, mediatorVars>>

StopWatch_Reset ==
  /\ Len(events) < MaxEvents
  /\ startTime' = time_point_min
  /\ endTime' = time_point_min
  /\ Called("Reset", now)
  /\ UNCHANGED <<now, reading>>
  /\ UNCHANGED <<solverVars, fdmVars, payoffVars, builderVars, mediatorVars>>

\* GetTime() const: reading holds what it returned.
StopWatch_GetTime ==
  /\ Len(events) < MaxEvents
  /\ reading' = IF startTime = time_point_min \/ endTime = time_point_min
                  THEN <<Zero>>
                ELSE <<duration_cast(endTime - startTime)>>
  /\ Called("GetTime", now)
  /\ UNCHANGED <<startTime, endTime, now>>
  /\ UNCHANGED <<solverVars, fdmVars, payoffVars, builderVars, mediatorVars>>

InitWatch == InitWith({SimulationBuilder})

NextWatch ==
  \/ StopWatch_StartStopWatch
  \/ StopWatch_StopStopWatch
  \/ StopWatch_Reset
  \/ StopWatch_GetTime

SpecWatch == InitWatch /\ [][NextWatch]_vars

\* The place in events of the last call of one of ops, 0 for none.
LastCall(ops) ==
  LET at == {n \in 1..Len(events) : events[n].op \in ops}
  IN  IF at = {} THEN 0 ELSE CHOOSE n \in at : \A k \in at : k <= n

\* The last of the Start and Reset calls made is a Start, and a Stop was
\* made after it.
StartedThenStopped ==
  /\ LastCall({"Start", "Reset"}) > 0
  /\ events[LastCall({"Start", "Reset"})].op = "Start"
  /\ LastCall({"Stop"}) > LastCall({"Start", "Reset"})

\* A step is a call of GetTime.
GetTimeCalled ==
  /\ Len(events') = Len(events) + 1
  /\ events'[Len(events')].op = "GetTime"

\* C27: GetTime() returns 0 unless, since the last Start or Reset, the
\* stopwatch was started and then stopped: after construction, after a
\* Reset, after a Start with no Stop yet, after a Stop that no Start
\* preceded, and after a Start that follows a Stop.  Otherwise it returns
\* the time from the last Start to the last Stop, in seconds, which is not
\* below 0.  A call of GetTime() leaves startTime and endTime as they are.
C27_GetTime ==
  /\ [](events # <<>> /\ events[Len(events)].op = "GetTime" =>
          /\ Len(reading) = 1
          /\ RLe(Zero, reading[1])
          /\ reading[1] =
               IF StartedThenStopped
                 THEN RDiv(ToDouble(events[LastCall({"Stop"})].at -
                                    events[LastCall({"Start", "Reset"})].at),
                           ToDouble(TicksPerSecond))
               ELSE Zero)
  /\ [][GetTimeCalled => UNCHANGED <<startTime, endTime>>]_vars

\* GetTime() has returned the time from a Start to the second of two Stops
\* after it, which is not 0 and is not the time to the first Stop.
C27_Witness ==
  /\ Len(events) = 4
  /\ events[1].op = "Start"
  /\ events[2].op = "Stop"
  /\ events[3].op = "Stop"
  /\ events[3].at > events[2].at
  /\ events[2].at > events[1].at
  /\ events[4].op = "GetTime"
  /\ reading = <<duration_cast(events[3].at - events[1].at)>>
  /\ RLt(Zero, reading[1])

\* GetTime() has returned 0 after a Start that followed a Start and a Stop
\* at a later reading.
C27_WitnessRestart ==
  /\ Len(events) = 4
  /\ events[1].op = "Start"
  /\ events[2].op = "Stop"
  /\ events[2].at > events[1].at
  /\ events[3].op = "Start"
  /\ events[4].op = "GetTime"
  /\ reading = <<Zero>>

=============================================================================
